---- MODULE Spec2Model ----
(***************************************************************************)
(* A model of the rapids API-key service: the api_keys and                 *)
(* rate_limit_records tables (db/index.ts) and the operations of           *)
(* ApiKeyService (services: create, validate, checkRateLimit, revoke,      *)
(* delete, getById, list, updateMetadata, updateScopes, rename, getStats). *)
(*                                                                         *)
(* Strings that the code slices or concatenates (prefix, raw key, suffix)  *)
(* are sequences of one-character strings.  A nullable value is <<>>       *)
(* (null) or <<v>>.  The service runs on one JavaScript event loop over a  *)
(* synchronous SQLite handle: a handler runs without interruption up to    *)
(* its next await, so create and validate are two steps each (before and   *)
(* after `await hashKey`) and every other operation is one step.  A step   *)
(* reads the clock once.  The operations that only read (getById, list,    *)
(* getStats) and the value an operation returns are operators over the     *)
(* tables.                                                                 *)
(***************************************************************************)
EXTENDS Integers, Sequences, FiniteSets, Bags, TLC

VARIABLES
  api_keys,            \* the rows of table api_keys
  rate_limit_records,  \* the rows of table rate_limit_records
  now,                 \* the clock read by Date.now() / new Date(), in ms
  pending,             \* bag of create/validate calls parked at `await hashKey`
  nextId,              \* number of ids generateId has handed out
  issued,              \* history: id -> raw key, for every create that returned
  admitted,            \* history: bag of ids, one copy per valid result of a
                       \*   validate that ran the rate check in the current window
  admittedBefore,      \* history: the same for the window before the current one
  revoked,             \* history: ids for which revoke returned true
  deleted,             \* history: ids for which delete returned true
  apps,                \* the rows of table apps
  shared_secrets,      \* the rows of table shared_secrets
  rues                 \* the rows of table rues

\* The tables of the auxiliary record types
auxTables == <<apps, shared_secrets, rues>>

vars == <<api_keys, rate_limit_records, now, pending, nextId,
          issued, admitted, admittedBefore, revoked, deleted,
          apps, shared_secrets, rues>>

-----------------------------------------------------------------------------
(* Bounds of the model *)

MaxKeys == 2       \* create calls per behaviour
MaxPending == 2    \* calls parked at an await at the same time
MaxTicks == 3      \* clock advances per behaviour
OpsTicks == 2      \* clock advances per behaviour of SpecOps
AuxTicks == 1      \* clock advances per behaviour of SpecAux
MaxApps == 1       \* apps created without an app_id per behaviour
WindowTicks == 4   \* clock advances per behaviour of SpecWindow

-----------------------------------------------------------------------------
(* Values *)

Null == <<>>
Some(v) == <<v>>

\* JavaScript truthiness of a `number | null` (x ? a : b, a && b)
Truthy(x) == x # Null /\ x[1] # 0

WindowMs == 60000
MsPerSecond == 1000

lower == <<"a","b","c","d","e","f","g","h","i","j","k","l","m",
           "n","o","p","q","r","s","t","u","v","w","x","y","z">>
upper == <<"A","B","C","D","E","F","G","H","I","J","K","L","M",
           "N","O","P","Q","R","S","T","U","V","W","X","Y","Z">>
digits == <<"0","1","2","3","4","5","6","7","8","9">>

CHARSETS ==
  [ alphanumeric       |-> lower \o upper \o digits,
    alphanumeric_lower |-> lower \o digits,
    alphanumeric_upper |-> upper \o digits,
    hex                |-> digits \o SubSeq(lower, 1, 6),
    base64url          |-> lower \o upper \o digits \o <<"-", "_">> ]

DEFAULT_CONFIG ==
  [ prefix    |-> <<"r","a","p","i","d","s","_">>,
    length    |-> 32,
    charset   |-> "base64url",
    expiresIn |-> Null,
    metadata  |-> <<>>,
    scopes    |-> <<>>,
    name      |-> Null,
    rateLimit |-> Null ]

\* { ...DEFAULT_CONFIG, ...config }
mergedConfig(config) ==
  [ f \in DOMAIN DEFAULT_CONFIG |->
      IF f \in DOMAIN config THEN config[f] ELSE DEFAULT_CONFIG[f] ]

\* charset[value % charset.length] for each byte of the random array
generateRandomStringMutShort(length, charset, array) ==
  [ i \in 1..(length - 1) |-> charset[(array[i] % Len(charset)) + 1] ]

generateRandomString(length, charset, array) ==
  [ i \in 1..length |-> charset[(array[i] % Len(charset)) + 1] ]

\* TextEncoder.encode: the UTF-8 byte of each (ASCII) character
CharCode ==
  [ c \in { lower[i] : i \in 1..26 } \cup { upper[i] : i \in 1..26 }
          \cup { digits[i] : i \in 1..10 } \cup {"-", "_"} |->
      IF \E i \in 1..26 : lower[i] = c
        THEN 96 + (CHOOSE i \in 1..26 : lower[i] = c)
      ELSE IF \E i \in 1..26 : upper[i] = c
        THEN 64 + (CHOOSE i \in 1..26 : upper[i] = c)
      ELSE IF \E i \in 1..10 : digits[i] = c
        THEN 47 + (CHOOSE i \in 1..10 : digits[i] = c)
      ELSE IF c = "-" THEN 45 ELSE 95 ]

encode(key) == [ i \in 1..Len(key) |-> CharCode[key[i]] ]

\* SHA-256 of the UTF-8 bytes, hex-encoded.  The digest is modelled as an
\* uninterpreted, collision-free function of the bytes: equal inputs give
\* equal digests, distinct inputs distinct ones, and nothing else is known
\* of a digest.
hashKey(key) == [ alg |-> "SHA-256", of |-> encode(key) ]

\* String.prototype.slice(-4)
slice4(s) == IF Len(s) <= 4 THEN s ELSE SubSeq(s, Len(s) - 3, Len(s))

\* JSON.stringify / JSON.parse of the metadata object (a sequence of
\* <<key, value>> entries) and of the scopes array (a sequence of strings):
\* the text is the sequence of its tokens.
RECURSIVE joinTokens(_)
joinTokens(items) ==
  IF Len(items) = 0 THEN <<>>
  ELSE IF Len(items) = 1 THEN items[1]
  ELSE items[1] \o <<",">> \o joinTokens(Tail(items))

stringifyScopes(scopes) ==
  <<"[">> \o joinTokens([ i \in 1..Len(scopes) |-> <<scopes[i]>> ]) \o <<"]">>

stringifyMetadata(metadata) ==
  <<"{">> \o joinTokens([ i \in 1..Len(metadata) |->
                            <<metadata[i][1], ":", metadata[i][2]>> ]) \o <<"}">>

parseScopes(text) ==
  [ i \in 1..((Len(text) - 1) \div 2) |-> text[2 * i] ]

parseMetadata(text) ==
  [ i \in 1..((Len(text) - 1) \div 4) |-> <<text[4 * i - 2], text[4 * i]>> ]

\* rowToApiKey
rowToApiKey(row) ==
  [ id         |-> row.id,
    keyHash    |-> row.key_hash,
    prefix     |-> row.prefix,
    suffix     |-> row.suffix,
    name       |-> row.name,
    createdAt  |-> row.created_at,
    expiresAt  |-> IF Truthy(row.expires_at) THEN row.expires_at ELSE Null,
    lastUsedAt |-> IF Truthy(row.last_used_at) THEN row.last_used_at ELSE Null,
    isActive   |-> row.is_active = 1,
    metadata   |-> parseMetadata(row.metadata),
    scopes     |-> parseScopes(row.scopes),
    rateLimit  |-> row.rate_limit ]

-----------------------------------------------------------------------------
(* The store *)

\* SELECT * FROM api_keys WHERE key_hash = ? / WHERE id = ?
rowsByHash(keyHash) == { r \in api_keys : r.key_hash = keyHash }
rowsById(keyId) == { r \in api_keys : r.id = keyId }

\* UPDATE api_keys SET <column> = <value> WHERE id = ?
updateWhereIdMutAll(keyId, column, value) ==
  { [r EXCEPT ![column] = value] : r \in api_keys }

updateWhereId(keyId, column, value) ==
  { IF r.id = keyId THEN [r EXCEPT ![column] = value] ELSE r : r \in api_keys }

\* PRIMARY KEY (id) and UNIQUE (key_hash) of table api_keys
insertAllowedMutIdOnly(row) == rowsById(row.id) = {}

insertAllowed(row) ==
  /\ rowsById(row.id) = {}
  /\ rowsByHash(row.key_hash) = {}

\* The connection never issues PRAGMA foreign_keys = ON, and SQLite leaves
\* foreign keys unenforced unless it is issued: ON DELETE CASCADE of
\* rate_limit_records.key_id has no effect.
foreignKeysOn == FALSE

-----------------------------------------------------------------------------
(* checkRateLimit *)

\* Math.floor(now / 60000) * 60000
windowStartOfMutNoFloor(t) == t

windowStartOf(t) == (t \div WindowMs) * WindowMs

\* DELETE FROM rate_limit_records WHERE window_start < windowStart - 60000
purgeOldMutCurrentOnly(records, windowStart) ==
  { r \in records : ~(r.window_start < windowStart) }

purgeOld(records, windowStart) ==
  { r \in records : ~(r.window_start < windowStart - WindowMs) }

\* SELECT request_count ... WHERE key_id = ? AND window_start = ?
selectCount(records, keyId, windowStart) ==
  { r \in records : r.key_id = keyId /\ r.window_start = windowStart }

\* row && row.request_count >= limit
isRateLimitedMutGt(rows, limit) ==
  \E r \in rows : r.request_count > limit

isRateLimited(rows, limit) ==
  \E r \in rows : r.request_count >= limit

\* INSERT ... VALUES (?, ?, 1) ON CONFLICT (key_id, window_start)
\*   DO UPDATE SET request_count = request_count + 1
upsertIncrementMutReplace(records, keyId, windowStart) ==
  { r \in records : ~(r.key_id = keyId /\ r.window_start = windowStart) }
    \cup { [key_id |-> keyId, window_start |-> windowStart, request_count |-> 1] }

upsertIncrement(records, keyId, windowStart) ==
  IF selectCount(records, keyId, windowStart) = {}
    THEN records \cup
           { [key_id |-> keyId, window_start |-> windowStart, request_count |-> 1] }
    ELSE { IF r.key_id = keyId /\ r.window_start = windowStart
             THEN [r EXCEPT !.request_count = @ + 1] ELSE r : r \in records }

\* checkRateLimit(keyId, limit) at clock t on table records: whether the
\* request is rate limited, the table afterwards, and the statements run.
checkRateLimitMutCount(records, keyId, limit, t) ==
  LET windowStart == windowStartOf(t)
      purged == purgeOld(records, windowStart)
  IN [ limited |-> isRateLimited(selectCount(purged, keyId, windowStart), limit),
       records |-> upsertIncrement(purged, keyId, windowStart),
       stmts |-> <<"DELETE", "SELECT", "INSERT">> ]

checkRateLimit(records, keyId, limit, t) ==
  LET windowStart == windowStartOf(t)
      purged == purgeOld(records, windowStart)
      rows == selectCount(purged, keyId, windowStart)
  IN IF isRateLimited(rows, limit)
       THEN [ limited |-> TRUE, records |-> purged,
              stmts |-> <<"DELETE", "SELECT">> ]
       ELSE [ limited |-> FALSE,
              records |-> upsertIncrement(purged, keyId, windowStart),
              stmts |-> <<"DELETE", "SELECT", "INSERT">> ]

-----------------------------------------------------------------------------
(* Calls parked at an await *)

createCall(rawKey, config) ==
  [ op |-> "create", key |-> rawKey, config |-> config,
    updateLastUsed |-> FALSE, checkRateLimit |-> FALSE ]

validateCall(key, updateLastUsed, checkRateLimitOpt) ==
  [ op |-> "validate", key |-> key, config |-> DEFAULT_CONFIG,
    updateLastUsed |-> updateLastUsed, checkRateLimit |-> checkRateLimitOpt ]

pendingOf(op) == { c \in BagToSet(pending) : c.op = op }

createsStarted ==
  nextId + BagCardinality([ c \in pendingOf("create") |-> pending[c] ])

-----------------------------------------------------------------------------
(* create *)

\* CHARSETS[mergedConfig.charset]: undefined (no characters to index) for a
\* name that is no key of CHARSETS
charsetOf(name) == IF name \in DOMAIN CHARSETS THEN CHARSETS[name] ELSE <<>>

\* What create throws before its await, and whether the random bytes were
\* drawn by then: new Uint8Array(length) throws for a negative length;
\* charset.length throws for an undefined charset, in the first round of
\* the loop over the bytes drawn.  Nothing else is tested.
configError(config) ==
  LET merged == mergedConfig(config)
  IN IF merged.length < 0
       THEN [ error |-> "RangeError", drawn |-> FALSE ]
     ELSE IF merged.charset \notin DOMAIN CHARSETS /\ merged.length > 0
       THEN [ error |-> "TypeError", drawn |-> TRUE ]
     ELSE [ error |-> "none", drawn |-> TRUE ]

\* `${prefix}${randomPart}` for the random array drawn
rawKeyOf(config, array) ==
  LET merged == mergedConfig(config)
  IN merged.prefix \o
       generateRandomString(merged.length, charsetOf(merged.charset), array)

\* now + expiresIn * 1000, or null when expiresIn is falsy
expiresAtOf(expiresIn, t) ==
  IF Truthy(expiresIn) THEN Some(t + expiresIn[1] * MsPerSecond) ELSE Null

\* const keyHash = await hashKey(rawKey)
keyHashOfMutBody(rawKey, config) ==
  hashKey(SubSeq(rawKey, Len(config.prefix) + 1, Len(rawKey)))

keyHashOf(rawKey, config) == hashKey(rawKey)

\* The row create inserts
newRowMutUsed(id, rawKey, config, t) ==
  [ id           |-> id,
    key_hash     |-> keyHashOf(rawKey, config),
    prefix       |-> config.prefix,
    suffix       |-> slice4(rawKey),
    name         |-> config.name,
    created_at   |-> t,
    expires_at   |-> expiresAtOf(config.expiresIn, t),
    last_used_at |-> Some(t),
    is_active    |-> 1,
    metadata     |-> stringifyMetadata(config.metadata),
    scopes       |-> stringifyScopes(config.scopes),
    rate_limit   |-> config.rateLimit ]

newRow(id, rawKey, config, t) ==
  [ id           |-> id,
    key_hash     |-> keyHashOf(rawKey, config),
    prefix       |-> config.prefix,
    suffix       |-> slice4(rawKey),
    name         |-> config.name,
    created_at   |-> t,
    expires_at   |-> expiresAtOf(config.expiresIn, t),
    last_used_at |-> Null,
    is_active    |-> 1,
    metadata     |-> stringifyMetadata(config.metadata),
    scopes       |-> stringifyScopes(config.scopes),
    rate_limit   |-> config.rateLimit ]

\* The record create returns
newRecord(id, rawKey, config, t) ==
  LET expiresAt == expiresAtOf(config.expiresIn, t)
  IN [ id         |-> id,
       keyHash    |-> keyHashOf(rawKey, config),
       prefix     |-> config.prefix,
       suffix     |-> slice4(rawKey),
       name       |-> config.name,
       createdAt  |-> t,
       expiresAt  |-> IF Truthy(expiresAt) THEN expiresAt ELSE Null,
       lastUsedAt |-> Null,
       isActive   |-> TRUE,
       metadata   |-> config.metadata,
       scopes     |-> config.scopes,
       rateLimit  |-> config.rateLimit ]

\* create up to `await hashKey(rawKey)`: merge the config, draw the random
\* part (array is what crypto.getRandomValues wrote), build the raw key.
Create(config, array) ==
  /\ configError(config).error = "none"
  /\ createsStarted < MaxKeys
  /\ BagCardinality(pending) < MaxPending
  /\ pending' = pending (+)
                  SetToBag({createCall(rawKeyOf(config, array), mergedConfig(config))})
  /\ UNCHANGED <<api_keys, rate_limit_records, now, nextId,
                 issued, admitted, admittedBefore, revoked, deleted, auxTables>>

\* create after the await: read the clock, generate the id, insert the row
\* (the statement throws on a constraint violation, and create with it) and
\* return { key: rawKey, record }.
create(c, id, t) ==
  LET row == newRow(id, c.key, c.config, t)
  IN IF insertAllowed(row)
       THEN [ keys |-> api_keys \cup {row}, threw |-> Null,
              result |-> Some([ key |-> c.key,
                                record |-> newRecord(id, c.key, c.config, t) ]) ]
       ELSE [ keys |-> api_keys, threw |-> Some("SQLiteError"), result |-> Null ]

createAfterAwait(c) ==
  LET id == nextId + 1
      out == create(c, id, now)
  IN /\ nextId' = id
     /\ api_keys' = out.keys
     /\ issued' = IF out.threw = Null THEN issued @@ (id :> c.key) ELSE issued
     /\ UNCHANGED <<rate_limit_records, now, admitted, admittedBefore, revoked, deleted, auxTables>>

\* A parked create resumes
CreateResume(c) ==
  /\ c.op = "create"
  /\ BagIn(c, pending)
  /\ pending' = pending (-) SetToBag({c})
  /\ createAfterAwait(c)

\* A create that runs from call to return with nothing in between
CreateAlone(config, array) ==
  /\ configError(config).error = "none"
  /\ createsStarted < MaxKeys
  /\ pending = EmptyBag
  /\ UNCHANGED pending
  /\ createAfterAwait(createCall(rawKeyOf(config, array), mergedConfig(config)))

\* A create that throws before its await: nothing is parked, nothing stored
CreateThrows(config) ==
  /\ configError(config).error # "none"
  /\ UNCHANGED vars

-----------------------------------------------------------------------------
(* validate *)

\* validate up to `await hashKey(key)`
Validate(key, updateLastUsed, checkRateLimitOpt) ==
  /\ BagCardinality(pending) < MaxPending
  /\ pending' = pending (+)
                  SetToBag({validateCall(key, updateLastUsed, checkRateLimitOpt)})
  /\ UNCHANGED <<api_keys, rate_limit_records, now, nextId,
                 issued, admitted, admittedBefore, revoked, deleted, auxTables>>

\* apiKey.expiresAt && apiKey.expiresAt < new Date()
isExpired(apiKey, t) ==
  Truthy(apiKey.expiresAt) /\ apiKey.expiresAt[1] < t

\* The checks on the row that was found, in the order of the code: active,
\* then expiration.
rowChecksMutOrder(apiKey, t) ==
  IF isExpired(apiKey, t) THEN "expired"
  ELSE IF ~apiKey.isActive THEN "revoked"
  ELSE "ok"

rowChecksMutNoActive(apiKey, t) ==
  IF isExpired(apiKey, t) THEN "expired" ELSE "ok"

rowChecks(apiKey, t) ==
  IF ~apiKey.isActive THEN "revoked"
  ELSE IF isExpired(apiKey, t) THEN "expired"
  ELSE "ok"

\* checkRateLimit && apiKey.rateLimit
runsRateCheckMutAlways(checkRateLimitOpt, apiKey) == checkRateLimitOpt

runsRateCheckMutIgnoreOption(checkRateLimitOpt, apiKey) ==
  Truthy(apiKey.rateLimit)

runsRateCheck(checkRateLimitOpt, apiKey) ==
  checkRateLimitOpt /\ Truthy(apiKey.rateLimit)

\* The limit handed to checkRateLimit, as `>=` reads it (null compares as 0)
limitOf(apiKey) ==
  IF apiKey.rateLimit = Null THEN 0 ELSE apiKey.rateLimit[1]

\* UPDATE api_keys SET last_used_at = ? WHERE id = ?  (with Date.now())
touchLastUsedMutNever(keys, keyId, t) == keys

touchLastUsedMutCreated(keys, keyId, t) ==
  { IF r.id = keyId
      THEN [r EXCEPT !.last_used_at = Some(t), !.created_at = t] ELSE r : r \in keys }

touchLastUsedMutEveryRow(keys, keyId, t) ==
  { [r EXCEPT !.last_used_at = Some(t)] : r \in keys }

touchLastUsed(keys, keyId, t) ==
  { IF r.id = keyId THEN [r EXCEPT !.last_used_at = Some(t)] ELSE r : r \in keys }

\* validate after the await, at clock t on tables keys and records: the
\* result { valid, reason, key }, the tables afterwards and the statements
\* run on rate_limit_records.
validate(c, keys, records, t) ==
  LET rows == { r \in keys : r.key_hash = hashKey(c.key) }
      row == CHOOSE r \in rows : TRUE
      apiKey == rowToApiKey(row)
      check == rowChecks(apiKey, t)
      rate == IF runsRateCheck(c.checkRateLimit, apiKey)
                THEN checkRateLimit(records, apiKey.id, limitOf(apiKey), t)
                ELSE [ limited |-> FALSE, records |-> records, stmts |-> <<>> ]
  IN IF rows = {}
       THEN [ keys |-> keys, records |-> records, stmts |-> <<>>,
              valid |-> FALSE, reason |-> Some("not_found"), key |-> Null ]
     ELSE IF check # "ok"
       THEN [ keys |-> keys, records |-> records, stmts |-> <<>>,
              valid |-> FALSE, reason |-> Some(check), key |-> Some(apiKey) ]
     ELSE IF rate.limited
       THEN [ keys |-> keys, records |-> rate.records, stmts |-> rate.stmts,
              valid |-> FALSE, reason |-> Some("rate_limited"),
              key |-> Some(apiKey) ]
     ELSE IF c.updateLastUsed
       THEN [ keys |-> touchLastUsed(keys, apiKey.id, t),
              records |-> rate.records, stmts |-> rate.stmts,
              valid |-> TRUE, reason |-> Null,
              key |-> Some([apiKey EXCEPT !.lastUsedAt = Some(t)]) ]
     ELSE [ keys |-> keys, records |-> rate.records, stmts |-> rate.stmts,
            valid |-> TRUE, reason |-> Null, key |-> Some(apiKey) ]

validateAfterAwait(c) ==
  LET out == validate(c, api_keys, rate_limit_records, now)
  IN /\ api_keys' = out.keys
     /\ rate_limit_records' = out.records
     /\ admitted' = IF out.valid /\ out.stmts # <<>>
                      THEN admitted (+) SetToBag({out.key[1].id})
                      ELSE admitted
     /\ UNCHANGED <<now, nextId, issued, admittedBefore, revoked, deleted, auxTables>>

\* A parked validate resumes
ValidateResume(c) ==
  /\ c.op = "validate"
  /\ BagIn(c, pending)
  /\ pending' = pending (-) SetToBag({c})
  /\ validateAfterAwait(c)

\* A validate that runs from call to return with nothing in between
ValidateAlone(key, updateLastUsed, checkRateLimitOpt) ==
  /\ pending = EmptyBag
  /\ UNCHANGED pending
  /\ validateAfterAwait(validateCall(key, updateLastUsed, checkRateLimitOpt))

-----------------------------------------------------------------------------
(* revoke, delete, getById *)

\* result.changes > 0 of a statement with WHERE id = ?
changedMutAlways(keyId) == TRUE

changed(keyId) == Cardinality(rowsById(keyId)) > 0

\* revoke(keyId) on table keys: the table afterwards and the value returned.
\* UPDATE api_keys SET is_active = 0 WHERE id = ?; result.changes counts the
\* rows the WHERE clause matches, whatever their value was.
revokeMutActiveOnly(keys, keyId) ==
  [ keys   |-> { IF r.id = keyId THEN [r EXCEPT !.is_active = 0] ELSE r : r \in keys },
    result |-> \E r \in keys : r.id = keyId /\ r.is_active = 1 ]

revokeMutToggle(keys, keyId) ==
  [ keys   |-> { IF r.id = keyId THEN [r EXCEPT !.is_active = 1 - @] ELSE r : r \in keys },
    result |-> Cardinality({ r \in keys : r.id = keyId }) > 0 ]

revoke(keys, keyId) ==
  [ keys   |-> { IF r.id = keyId THEN [r EXCEPT !.is_active = 0] ELSE r : r \in keys },
    result |-> Cardinality({ r \in keys : r.id = keyId }) > 0 ]

Revoke(keyId) ==
  /\ api_keys' = revoke(api_keys, keyId).keys
  /\ revoked' = IF revoke(api_keys, keyId).result
                  THEN revoked \cup {keyId} ELSE revoked
  /\ UNCHANGED <<rate_limit_records, now, pending, nextId, issued,
                 admitted, admittedBefore, deleted, auxTables>>

\* DELETE FROM api_keys WHERE id = ?
deleteWhereIdMutSoft(keyId) == updateWhereId(keyId, "is_active", 0)

deleteWhereId(keyId) == api_keys \ rowsById(keyId)

\* ON DELETE CASCADE of rate_limit_records.key_id
cascadeDelete(keyId) ==
  IF foreignKeysOn /\ changed(keyId)
    THEN { r \in rate_limit_records : r.key_id # keyId }
    ELSE rate_limit_records

Delete(keyId) ==
  /\ api_keys' = deleteWhereId(keyId)
  /\ rate_limit_records' = cascadeDelete(keyId)
  /\ deleted' = IF changed(keyId) THEN deleted \cup {keyId} ELSE deleted
  /\ UNCHANGED <<now, pending, nextId, issued, admitted, admittedBefore, revoked, auxTables>>

\* getById: row ? rowToApiKey(row) : null
getById(keyId) ==
  IF rowsById(keyId) = {} THEN Null
  ELSE Some(rowToApiKey(CHOOSE r \in rowsById(keyId) : TRUE))

-----------------------------------------------------------------------------
(* updateMetadata, updateScopes, rename *)

\* The table after each update and the value returned (result.changes > 0)
updateMetadata(keyId, metadata) ==
  [ keys   |-> updateWhereId(keyId, "metadata", stringifyMetadata(metadata)),
    result |-> changed(keyId) ]

updateScopes(keyId, scopes) ==
  [ keys   |-> updateWhereId(keyId, "scopes", stringifyScopes(scopes)),
    result |-> changed(keyId) ]

rename(keyId, name) ==
  [ keys   |-> updateWhereId(keyId, "name", Some(name)),
    result |-> changed(keyId) ]

UpdateMetadata(keyId, metadata) ==
  /\ api_keys' = updateMetadata(keyId, metadata).keys
  /\ UNCHANGED <<rate_limit_records, now, pending, nextId, issued,
                 admitted, admittedBefore, revoked, deleted, auxTables>>

UpdateScopes(keyId, scopes) ==
  /\ api_keys' = updateScopes(keyId, scopes).keys
  /\ UNCHANGED <<rate_limit_records, now, pending, nextId, issued,
                 admitted, admittedBefore, revoked, deleted, auxTables>>

Rename(keyId, name) ==
  /\ api_keys' = rename(keyId, name).keys
  /\ UNCHANGED <<rate_limit_records, now, pending, nextId, issued,
                 admitted, admittedBefore, revoked, deleted, auxTables>>

-----------------------------------------------------------------------------
(* list, getStats *)

\* The WHERE clause list builds from its options, at clock t
listMatchesMutKeepBoundary(row, options, t) ==
  /\ options.isActive # Null =>
       row.is_active = (IF options.isActive[1] THEN 1 ELSE 0)
  /\ (options.prefix # Null /\ options.prefix[1] # <<>>) =>
       row.prefix = options.prefix[1]
  /\ ~options.includeExpired =>
       (row.expires_at = Null \/ row.expires_at[1] >= t)

listMatches(row, options, t) ==
  /\ options.isActive # Null =>
       row.is_active = (IF options.isActive[1] THEN 1 ELSE 0)
  /\ (options.prefix # Null /\ options.prefix[1] # <<>>) =>
       row.prefix = options.prefix[1]
  /\ ~options.includeExpired =>
       (row.expires_at = Null \/ row.expires_at[1] > t)

\* ORDER BY created_at DESC; rows of equal created_at in insertion order
RECURSIVE orderByCreatedDesc(_)
orderByCreatedDesc(rows) ==
  IF rows = {} THEN <<>>
  ELSE LET first == CHOOSE r \in rows :
                      \A q \in rows :
                        \/ r.created_at > q.created_at
                        \/ r.created_at = q.created_at /\ r.id <= q.id
       IN <<first>> \o orderByCreatedDesc(rows \ {first})

\* LIMIT ? OFFSET ?  (a negative LIMIT is no limit, a negative OFFSET is 0)
limitOffsetMutInclusive(seq, limit, offset) ==
  LET from == (IF offset < 0 THEN 0 ELSE offset) + 1
      to == IF limit < 0 THEN Len(seq)
            ELSE IF from + limit > Len(seq) THEN Len(seq)
            ELSE from + limit
  IN SubSeq(seq, from, to)

limitOffset(seq, limit, offset) ==
  LET from == (IF offset < 0 THEN 0 ELSE offset) + 1
      to == IF limit < 0 THEN Len(seq)
            ELSE IF from + limit - 1 > Len(seq) THEN Len(seq)
            ELSE from + limit - 1
  IN SubSeq(seq, from, to)

list(options, t) ==
  LET rows == { r \in api_keys : listMatches(r, options, t) }
      page == limitOffset(orderByCreatedDesc(rows), options.limit, options.offset)
  IN [ i \in 1..Len(page) |-> rowToApiKey(page[i]) ]

defaultListOptions ==
  [ isActive |-> Null, prefix |-> Null, includeExpired |-> FALSE,
    offset |-> 0, limit |-> 50 ]

getStatsMutExclusive(t) ==
  [ total   |-> Cardinality(api_keys),
    active  |-> Cardinality({ r \in api_keys :
                  r.is_active = 1 /\ (r.expires_at = Null \/ r.expires_at[1] > t) }),
    expired |-> Cardinality({ r \in api_keys :
                  r.is_active = 1 /\ r.expires_at # Null /\ r.expires_at[1] <= t }),
    revoked |-> Cardinality({ r \in api_keys : r.is_active = 0 }) ]

getStatsMutActiveAll(t) ==
  [ total   |-> Cardinality(api_keys),
    active  |-> Cardinality({ r \in api_keys : r.is_active = 1 }),
    expired |-> Cardinality({ r \in api_keys :
                  r.expires_at # Null /\ r.expires_at[1] <= t }),
    revoked |-> Cardinality({ r \in api_keys : r.is_active = 0 }) ]

getStats(t) ==
  [ total   |-> Cardinality(api_keys),
    active  |-> Cardinality({ r \in api_keys :
                  r.is_active = 1 /\ (r.expires_at = Null \/ r.expires_at[1] > t) }),
    expired |-> Cardinality({ r \in api_keys :
                  r.expires_at # Null /\ r.expires_at[1] <= t }),
    revoked |-> Cardinality({ r \in api_keys : r.is_active = 0 }) ]

-----------------------------------------------------------------------------
(* The clock *)

\* The clock at construction, a quarter into a rate-limit window
StartNow == 2 * WindowMs + WindowMs \div 4

\* The clock advances by d ms, at most n times.  The history of admitted
\* requests restarts with each window.
Tick(d, n) ==
  /\ now + d <= StartNow + n * d
  /\ now' = now + d
  /\ admitted' = IF windowStartOf(now + d) = windowStartOf(now)
                   THEN admitted ELSE EmptyBag
  /\ admittedBefore' =
       IF windowStartOf(now + d) = windowStartOf(now) THEN admittedBefore
       ELSE IF windowStartOf(now + d) = windowStartOf(now) + WindowMs
         THEN admitted ELSE EmptyBag
  /\ UNCHANGED <<api_keys, rate_limit_records, pending, nextId,
                 issued, revoked, deleted, auxTables>>

-----------------------------------------------------------------------------
(* Inputs *)

\* The random arrays drawn: every byte the same
Bytes == {0, 255}
byteArrays(n) == { [ i \in 1..n |-> b ] : b \in Bytes }

\* A cryptographically secure generator does not repeat a draw: the arrays
\* offered to create give raw keys that were not drawn before.
drawn ==
  { issued[i] : i \in DOMAIN issued } \cup { c.key : c \in pendingOf("create") }
freshArrays(config) ==
  IF configError(config).error # "none" THEN {}
  ELSE { a \in byteArrays(mergedConfig(config).length) :
           rawKeyOf(config, a) \notin drawn }

keyShape == [ prefix |-> <<"s","k","_">>, length |-> 5, charset |-> "hex" ]

plainConfig == keyShape
expiringConfig == keyShape @@ [ expiresIn |-> Some(15), rateLimit |-> Some(1) ]
limitedConfig == keyShape @@ [ rateLimit |-> Some(2) ]

\* The keys presented to validate: the keys create can return, and the
\* well-formed key of the tests that no create returns
unknownKey ==
  <<"i","n","v","a","l","i","d","_","k","e","y","_","1","2","3","4","5">>
lifeKeys == { rawKeyOf(keyShape, a) : a \in byteArrays(5) } \cup {unknownKey}

KeyIds == 0..MaxKeys

Init ==
  /\ api_keys = {}
  /\ rate_limit_records = {}
  /\ now = StartNow
  /\ pending = EmptyBag
  /\ nextId = 0
  /\ issued = <<>>
  /\ admitted = EmptyBag
  /\ admittedBefore = EmptyBag
  /\ revoked = {}
  /\ deleted = {}
  /\ apps = {}
  /\ shared_secrets = {}
  /\ rues = {}

-----------------------------------------------------------------------------
(* Spec: the key lifecycle.  Keys without and with expiry (and a rate      *)
(* limit); operations run one at a time; the clock advances by a quarter   *)
(* of a window.                                                            *)

Next ==
  \/ \E config \in {plainConfig, expiringConfig} :
       \E array \in freshArrays(config) : CreateAlone(config, array)
  \/ \E key \in lifeKeys, u \in BOOLEAN, r \in BOOLEAN : ValidateAlone(key, u, r)
  \/ \E keyId \in KeyIds : Revoke(keyId)
  \/ \E keyId \in KeyIds : Delete(keyId)
  \/ Tick(WindowMs \div 4, MaxTicks)

Spec == Init /\ [][Next]_vars

(* SpecRate: the rate limiter.  Keys without and with a rate limit, no     *)
(* expiry; validate is called as the validation route calls it             *)
(* (updateLastUsed: false); the clock advances by a whole window.          *)

NextRate ==
  \/ \E config \in {plainConfig, limitedConfig} :
       \E array \in freshArrays(config) : CreateAlone(config, array)
  \/ \E key \in lifeKeys, r \in BOOLEAN : ValidateAlone(key, FALSE, r)
  \/ \E keyId \in KeyIds : Revoke(keyId)
  \/ \E keyId \in KeyIds : Delete(keyId)
  \/ Tick(WindowMs, MaxTicks)

SpecRate == Init /\ [][NextRate]_vars

(* SpecConc: calls in flight.  Up to MaxPending calls are parked at their  *)
(* await while others start and resume in any order.                       *)

NextConc ==
  \/ \E array \in freshArrays(limitedConfig) : Create(limitedConfig, array)
  \/ \E c \in pendingOf("create") : CreateResume(c)
  \/ \E key \in lifeKeys : Validate(key, FALSE, TRUE)
  \/ \E c \in pendingOf("validate") : ValidateResume(c)
  \/ \E keyId \in KeyIds : Revoke(keyId)
  \/ \E keyId \in KeyIds : Delete(keyId)
  \/ Tick(WindowMs, MaxTicks)

SpecConc == Init /\ [][NextConc]_vars

(* SpecOps: every operation that writes.  Keys with expiry and a rate      *)
(* limit; metadata, scopes and name are replaced by one value each; the    *)
(* clock advances by three quarters of a window.                           *)

opsConfig == keyShape @@ [ expiresIn |-> Some(60), rateLimit |-> Some(1) ]

newMetadata == << <<"env", "prod">> >>
newScopes == <<"read", "write">>
newName == <<"r","e","n","a","m","e","d">>

NextOps ==
  \/ \E array \in freshArrays(opsConfig) : CreateAlone(opsConfig, array)
  \/ \E key \in lifeKeys, u \in BOOLEAN : ValidateAlone(key, u, TRUE)
  \/ \E keyId \in KeyIds : Revoke(keyId)
  \/ \E keyId \in KeyIds : Delete(keyId)
  \/ \E keyId \in KeyIds : UpdateMetadata(keyId, newMetadata)
  \/ \E keyId \in KeyIds : UpdateScopes(keyId, newScopes)
  \/ \E keyId \in KeyIds : Rename(keyId, newName)
  \/ Tick(3 * (WindowMs \div 4), OpsTicks)

SpecOps == Init /\ [][NextOps]_vars

(* SpecCodec: the shape of the key.  create is called with and without a   *)
(* prefix and with random parts shorter than, as long as and longer than   *)
(* the stored suffix, and with configurations that are not valid.          *)

codecConfigs ==
  { [ prefix |-> p, length |-> n, charset |-> "hex" ] :
      p \in { <<>>, <<"s","k","_">> }, n \in {1, 4, 5} }

\* Configurations that are not valid: a length of zero or below, a charset
\* that is none of the five
invalidConfigs ==
  { [ prefix |-> <<"s","k","_">>, length |-> n, charset |-> c ] :
      n \in {-1, 0, 1}, c \in {"hex", "base58"} }
    \ { [ prefix |-> <<"s","k","_">>, length |-> 1, charset |-> "hex" ] }

codecKeys ==
  { rawKeyOf(config, a) : config \in codecConfigs, a \in byteArrays(5) }
    \cup { <<"s","k","_">> }

NextCodec ==
  \/ \E config \in codecConfigs \cup invalidConfigs :
       \E array \in freshArrays(config) : CreateAlone(config, array)
  \/ \E config \in invalidConfigs : CreateThrows(config)
  \/ \E key \in codecKeys, u \in BOOLEAN : ValidateAlone(key, u, TRUE)
  \/ \E keyId \in KeyIds : Revoke(keyId)
  \/ \E keyId \in KeyIds : Delete(keyId)

SpecCodec == Init /\ [][NextCodec]_vars

-----------------------------------------------------------------------------
(* Properties *)

\* Every way of calling validate, and what the call returns in this state
validateCalls ==
  { validateCall(key, u, r) : key \in lifeKeys, u \in BOOLEAN, r \in BOOLEAN }
outcome(c) == validate(c, api_keys, rate_limit_records, now)

\* The counter of the row's key for the current window has reached its limit
exhausted(row) ==
  \E r \in rate_limit_records :
    /\ r.key_id = row.id
    /\ r.window_start = windowStartOf(now)
    /\ r.request_count >= row.rate_limit[1]

inPast(expires_at) == expires_at # Null /\ expires_at[1] < now
inFuture(expires_at) == expires_at = Null \/ expires_at[1] > now

\* C1: validate reports the first check that fails, in the order not_found,
\* revoked, expired, rate_limited: an unknown key gives not_found and no
\* key; a revoked key gives revoked, expired or not; an active key whose
\* expiry is in the past gives expired, its window exhausted or not; an
\* active key with its expiry ahead gives rate_limited when the rate check
\* runs on an exhausted window, and is valid otherwise.
C1_CheckOrder ==
  \A c \in validateCalls :
    LET out == outcome(c)
        rows == rowsByHash(hashKey(c.key))
    IN /\ rows = {} =>
            ~out.valid /\ out.reason = Some("not_found") /\ out.key = Null
       /\ \A row \in rows :
            LET limited == c.checkRateLimit /\ row.rate_limit # Null /\ exhausted(row)
            IN /\ row.is_active = 0 =>
                    ~out.valid /\ out.reason = Some("revoked")
               /\ (row.is_active = 1 /\ inPast(row.expires_at)) =>
                    ~out.valid /\ out.reason = Some("expired")
               /\ (row.is_active = 1 /\ inFuture(row.expires_at) /\ limited) =>
                    ~out.valid /\ out.reason = Some("rate_limited")
               /\ (row.is_active = 1 /\ inFuture(row.expires_at) /\ ~limited) =>
                    out.valid /\ out.reason = Null

\* An active key past its expiry, its window exhausted, is reported expired;
\* and a revoked key past its expiry is reported revoked
C1_Witness ==
  /\ \E row \in api_keys :
       /\ row.is_active = 1 /\ inPast(row.expires_at)
       /\ row.rate_limit # Null /\ exhausted(row)
       /\ outcome(validateCall(issued[row.id], TRUE, TRUE)).reason = Some("expired")
  /\ \E row \in api_keys :
       /\ row.is_active = 0 /\ inPast(row.expires_at)
       /\ outcome(validateCall(issued[row.id], TRUE, TRUE)).reason = Some("revoked")

\* C5: the raw key create returned, presented to validate while the key is
\* neither revoked nor deleted and has no expiry and no rate limit, is
\* valid, with no reason and the record of the id create returned.
C5_RoundTrip ==
  \A id \in DOMAIN issued : \A row \in rowsById(id) :
    (row.is_active = 1 /\ row.expires_at = Null /\ row.rate_limit = Null) =>
      \A u \in BOOLEAN, r \in BOOLEAN :
        LET out == outcome(validateCall(issued[id], u, r))
        IN /\ out.valid
           /\ out.reason = Null
           /\ out.key # Null
           /\ out.key[1].id = id

\* Such a key has been validated and is valid again, next to another key
C5_Witness ==
  \E id \in DOMAIN issued : \E row \in rowsById(id) :
    /\ row.is_active = 1 /\ row.expires_at = Null /\ row.rate_limit = Null
    /\ row.last_used_at # Null
    /\ outcome(validateCall(issued[id], TRUE, TRUE)).valid
    /\ Cardinality(api_keys) = 2

\* C6: once revoke has returned true for a key, validate of its raw key is
\* never valid again: the reason is revoked while the row exists and
\* not_found once it is deleted.
C6_RevokedStaysInvalid ==
  \A id \in revoked :
    \A u \in BOOLEAN, r \in BOOLEAN :
      LET out == outcome(validateCall(issued[id], u, r))
      IN /\ ~out.valid
         /\ rowsById(id) # {} => out.reason = Some("revoked")
         /\ rowsById(id) = {} => out.reason = Some("not_found")

\* One revoked key is still stored, past its expiry, and another is deleted
C6_Witness ==
  /\ \E id \in revoked : \E row \in rowsById(id) :
       /\ inPast(row.expires_at)
       /\ outcome(validateCall(issued[id], TRUE, TRUE)).reason = Some("revoked")
  /\ \E id \in revoked \cap deleted :
       outcome(validateCall(issued[id], TRUE, TRUE)).reason = Some("not_found")

\* C7: for an active key, validate gives expired exactly when the key has an
\* expiry and the expiry is at or before the time of the call.
C7_ExpiredAtOrBeforeNow ==
  \A c \in validateCalls : \A row \in rowsByHash(hashKey(c.key)) :
    row.is_active = 1 =>
      ( outcome(c).reason = Some("expired")
          <=> (row.expires_at # Null /\ row.expires_at[1] <= now) )

\* Every way of calling list
listOptions ==
  [ isActive : {Null, Some(TRUE), Some(FALSE)},
    prefix : {Null, Some(<<>>), Some(keyShape.prefix)},
    includeExpired : BOOLEAN,
    offset : {0, 1},
    limit : {1, 50} ]

\* C8: once delete has returned true for a key, getById gives null, no list
\* holds the key, validate of its raw key gives not_found and delete gives
\* false, from then on.
C8_DeletedIsGone ==
  \A id \in deleted :
    /\ getById(id) = Null
    /\ \A o \in listOptions :
         \A i \in DOMAIN list(o, now) : list(o, now)[i].id # id
    /\ \A u \in BOOLEAN, r \in BOOLEAN :
         LET out == outcome(validateCall(issued[id], u, r))
         IN ~out.valid /\ out.reason = Some("not_found") /\ out.key = Null
    /\ ~changed(id)

\* A key is deleted while another is stored and listed
C8_Witness ==
  /\ deleted # {}
  /\ Len(list(defaultListOptions, now)) = 1
  /\ \E id \in deleted : getById(id) = Null

\* C2: for an active, unexpired key of rate limit N >= 1, validate with the
\* rate check on is valid while fewer than N validates of the key were valid
\* in the current window, and is rate_limited once N were.
C2_FirstNPerWindow ==
  \A c \in validateCalls : \A row \in rowsByHash(hashKey(c.key)) :
    ( /\ c.checkRateLimit
      /\ row.is_active = 1 /\ inFuture(row.expires_at)
      /\ row.rate_limit # Null /\ row.rate_limit[1] >= 1 ) =>
      LET out == outcome(c)
          n == CopiesIn(row.id, admitted)
      IN /\ n < row.rate_limit[1] => out.valid
         /\ n >= row.rate_limit[1] =>
              ~out.valid /\ out.reason = Some("rate_limited")

\* N validates were valid in a window that is not the key's first, and the
\* next is rate_limited
C2_Witness ==
  \E row \in api_keys :
    /\ row.is_active = 1 /\ row.rate_limit = Some(2)
    /\ CopiesIn(row.id, admitted) = 2
    /\ windowStartOf(now) > windowStartOf(row.created_at)
    /\ outcome(validateCall(issued[row.id], FALSE, TRUE)).reason = Some("rate_limited")

\* C3: with validates of one key in flight together, the validates of the
\* key that are valid in a window never exceed its rate limit, and neither
\* does a stored request count of the key.
C3_NeverOverLimit ==
  \A row \in api_keys :
    row.rate_limit # Null =>
      /\ CopiesIn(row.id, admitted) <= row.rate_limit[1]
      /\ \A r \in rate_limit_records :
           r.key_id = row.id => r.request_count <= row.rate_limit[1]

\* Two validates of one key are in flight with one request left in the window
C3_Witness ==
  \E row \in api_keys :
    /\ row.is_active = 1 /\ row.rate_limit = Some(2)
    /\ CopiesIn(row.id, admitted) = 1
    /\ CopiesIn(validateCall(issued[row.id], FALSE, TRUE), pending) = 2

\* What the stored prefix and suffix spell: the prefix followed by an end of
\* the suffix
spelled(row) ==
  { row.prefix \o SubSeq(row.suffix, k, Len(row.suffix)) :
      k \in 1..(Len(row.suffix) + 1) }

\* The texts a row stores
storedTexts(row) ==
  { row.prefix, row.suffix, row.metadata, row.scopes }
    \cup { row.name[i] : i \in DOMAIN row.name }

\* C4: no stored text is the raw key, and the raw key is not what the
\* stored prefix and suffix spell, however short the random part is.
C4_RawKeyNotStored ==
  \A row \in api_keys :
    /\ issued[row.id] \notin storedTexts(row)
    /\ \A text \in spelled(row) : hashKey(text) # row.key_hash

\* C9: lastUsedAt is null when the key is created; a step changes it only
\* if the step is a valid validate of the key with updateLastUsed, and then
\* to the time of the call; such a validate sets it, and a validate that is
\* invalid or has updateLastUsed off leaves the keys as they are.
C9_ValidateSets ==
  \A c \in validateCalls :
    LET out == outcome(c)
    IN IF out.valid /\ c.updateLastUsed
         THEN /\ out.key[1].lastUsedAt = Some(now)
              /\ \A n \in out.keys :
                   n.id = out.key[1].id => n.last_used_at = Some(now)
         ELSE out.keys = api_keys

C9_LastUsedStep ==
  \A id \in KeyIds :
    LET old == rowsById(id)
        new == { r \in api_keys' : r.id = id }
    IN /\ (old = {} /\ new # {}) => \A n \in new : n.last_used_at = Null
       /\ \A o \in old, n \in new :
            o.last_used_at # n.last_used_at =>
              /\ n.last_used_at = Some(now)
              /\ \E c \in validateCalls :
                   LET out == outcome(c)
                   IN /\ c.updateLastUsed /\ out.valid
                      /\ out.key[1].id = id
                      /\ api_keys' = out.keys
                      /\ rate_limit_records' = out.records

C9_LastUsedOnlyByValidate == []C9_ValidateSets /\ [][C9_LastUsedStep]_vars

\* A key was used after the instant of its creation, and was renamed, given
\* new metadata and scopes, and revoked
C9_Witness ==
  \E row \in api_keys :
    /\ row.last_used_at # Null /\ row.last_used_at[1] > row.created_at
    /\ row.name = Some(newName)
    /\ row.metadata = stringifyMetadata(newMetadata)
    /\ row.scopes = stringifyScopes(newScopes)
    /\ row.is_active = 0

\* C10: validate of a key without rate limit is never rate_limited and runs
\* no statement on the rate-limit records: it reads, inserts, increments and
\* purges nothing.
C10_NoLimitNoCounter ==
  \A c \in validateCalls : \A row \in rowsByHash(hashKey(c.key)) :
    row.rate_limit = Null =>
      LET out == outcome(c)
      IN /\ out.reason # Some("rate_limited")
         /\ out.stmts = <<>>
         /\ out.records = rate_limit_records

\* A key without rate limit is valid while the records hold a row old
\* enough to be purged
C10_Witness ==
  /\ \E row \in api_keys :
       /\ row.rate_limit = Null /\ row.is_active = 1
       /\ outcome(validateCall(issued[row.id], FALSE, TRUE)).valid
  /\ \E r \in rate_limit_records :
       r.window_start < windowStartOf(now) - WindowMs

\* C11: revoke returns true exactly when a row of the id exists, revoked
\* already or not, and leaves the row inactive; revoking twice leaves the
\* table that revoking once leaves.
C11_RevokeIdempotent ==
  \A id \in KeyIds :
    LET once == revoke(api_keys, id)
        twice == revoke(once.keys, id)
    IN /\ once.result <=> rowsById(id) # {}
       /\ \A r \in once.keys : r.id = id => r.is_active = 0
       /\ twice.result = once.result
       /\ twice.keys = once.keys

\* A key revoke returned true for is stored, and revoke returns true again
C11_Witness ==
  \E id \in revoked : \E row \in rowsById(id) :
    /\ row.is_active = 0
    /\ revoke(api_keys, id).result
    /\ revoke(api_keys, id).keys = api_keys

\* The records stored, as getById returns them
storedRecords == { rowToApiKey(r) : r \in api_keys }
atOrBeforeNow(expiresAt) == expiresAt # Null /\ expiresAt[1] <= now

\* C12: getStats gives total = the records, active = the active records not
\* expired, expired = the records with expiresAt set and <= now, active or
\* not, revoked = the inactive records; a record revoked and expired counts
\* in both expired and revoked.
C12_Stats ==
  LET stats == getStats(now)
  IN /\ stats.total = Cardinality(storedRecords)
     /\ stats.active =
          Cardinality({ k \in storedRecords : k.isActive /\ ~atOrBeforeNow(k.expiresAt) })
     /\ stats.expired =
          Cardinality({ k \in storedRecords : atOrBeforeNow(k.expiresAt) })
     /\ stats.revoked = Cardinality({ k \in storedRecords : ~k.isActive })

\* One record is revoked and expired and counts twice, next to an active one
C12_Witness ==
  LET stats == getStats(now)
  IN /\ \E k \in storedRecords : ~k.isActive /\ atOrBeforeNow(k.expiresAt)
     /\ stats.total = 2 /\ stats.active = 1
     /\ stats.expired = 1 /\ stats.revoked = 1

\* C13: list without includeExpired returns no record with expiresAt set
\* and <= now, active or revoked, and (first page, limit above the number of
\* records) every unexpired record that matches the other filters; with
\* isActive given it returns only records of that isActive; the result is
\* in descending order of creation time.
C13_ListFilters ==
  \A o \in listOptions :
    LET res == list(o, now)
    IN /\ ~o.includeExpired =>
            \A i \in DOMAIN res : ~atOrBeforeNow(res[i].expiresAt)
       /\ o.isActive # Null =>
            \A i \in DOMAIN res : res[i].isActive = o.isActive[1]
       /\ \A i \in DOMAIN res, j \in DOMAIN res :
            i < j => res[i].createdAt >= res[j].createdAt
       /\ (~o.includeExpired /\ o.offset = 0 /\ o.limit > Cardinality(api_keys)) =>
            \A k \in storedRecords :
              ( /\ ~atOrBeforeNow(k.expiresAt)
                /\ o.isActive # Null => k.isActive = o.isActive[1]
                /\ o.prefix # Null => k.prefix = o.prefix[1] ) =>
                \E i \in DOMAIN res : res[i] = k

\* An active record expires at this instant and is not listed, the other
\* record is, and with includeExpired the newer record comes first
C13_Witness ==
  /\ \E k \in storedRecords : k.isActive /\ k.expiresAt = Some(now)
  /\ Len(list(defaultListOptions, now)) = 1
  /\ LET all == list([defaultListOptions EXCEPT !.includeExpired = TRUE], now)
     IN Len(all) = 2 /\ all[1].createdAt > all[2].createdAt

\* The filters of list, and the page sizes asked for
listFilters ==
  [ isActive : {Null, Some(TRUE), Some(FALSE)},
    prefix : {Null, Some(keyShape.prefix)},
    includeExpired : BOOLEAN ]
pageSizes == {1, 2}

\* Pages 0..n of size L of a filter, one after the other
RECURSIVE pagesUpTo(_, _, _)
pagesUpTo(f, L, n) ==
  LET page == list(f @@ [ offset |-> n * L, limit |-> L ], now)
  IN IF n = 0 THEN page ELSE pagesUpTo(f, L, n - 1) \o page

\* C14: with the store unchanged, the pages of a filter at offsets 0, L,
\* 2L, ... with limit L, one after the other, are the matching records,
\* each once, also when records share their creation time.
C14_PagesPartition ==
  \A f \in listFilters, L \in pageSizes :
    LET whole == list(f @@ [ offset |-> 0, limit |-> Cardinality(api_keys) + 1 ], now)
        pages == pagesUpTo(f, L, Cardinality(api_keys))
    IN /\ pages = whole
       /\ \A i \in DOMAIN pages, j \in DOMAIN pages :
            i # j => pages[i].id # pages[j].id
       /\ \A k \in storedRecords :
            listMatches(CHOOSE r \in api_keys : r.id = k.id, f, now) =>
              \E i \in DOMAIN pages : pages[i] = k

\* Two records of one creation time are listed on two pages of size 1
C14_Witness ==
  LET first == list([defaultListOptions EXCEPT !.limit = 1], now)
      second == list([defaultListOptions EXCEPT !.limit = 1, !.offset = 1], now)
  IN /\ Len(first) = 1 /\ Len(second) = 1
     /\ first[1].id # second[1].id
     /\ first[1].createdAt = second[1].createdAt

\* C15: list with a prefix filter, the empty prefix included, returns only
\* records whose stored prefix is that prefix.
C15_PrefixExact ==
  \A o \in listOptions :
    o.prefix # Null =>
      \A i \in DOMAIN list(o, now) : list(o, now)[i].prefix = o.prefix[1]

\* Values given to the updates: those of SpecOps, others that share nothing
\* with them, and empty ones
metadataValues == { newMetadata, << <<"tier", "free">> >>, <<>> }
scopesValues == { newScopes, <<"admin">>, <<>> }
nameValues == { newName, <<"o","t","h","e","r">> }

\* The record of row in table keys, as getById returns it
recordIn(keys, row) == rowToApiKey(CHOOSE r \in keys : r.id = row.id)

\* C16: updateMetadata, updateScopes and rename of a stored id return true;
\* afterwards the record has exactly the metadata, scopes or name given,
\* whatever it had before, every other field of it is as before, and every
\* other row is as before.
C16_FullReplace ==
  \A row \in api_keys :
    LET before == rowToApiKey(row)
        others == api_keys \ {row}
    IN /\ \A m \in metadataValues :
            LET out == updateMetadata(row.id, m)
            IN /\ out.result
               /\ recordIn(out.keys, row) = [before EXCEPT !.metadata = m]
               /\ { r \in out.keys : r.id # row.id } = others
               /\ Cardinality(out.keys) = Cardinality(api_keys)
       /\ \A sc \in scopesValues :
            LET out == updateScopes(row.id, sc)
            IN /\ out.result
               /\ recordIn(out.keys, row) = [before EXCEPT !.scopes = sc]
               /\ { r \in out.keys : r.id # row.id } = others
               /\ Cardinality(out.keys) = Cardinality(api_keys)
       /\ \A n \in nameValues :
            LET out == rename(row.id, n)
            IN /\ out.result
               /\ recordIn(out.keys, row) = [before EXCEPT !.name = Some(n)]
               /\ { r \in out.keys : r.id # row.id } = others
               /\ Cardinality(out.keys) = Cardinality(api_keys)

\* A record has been given metadata, scopes and a name, next to a record
\* that has not
C16_Witness ==
  /\ \E k \in storedRecords :
       k.metadata = newMetadata /\ k.scopes = newScopes /\ k.name = Some(newName)
  /\ \E k \in storedRecords :
       k.metadata = <<>> /\ k.scopes = <<>> /\ k.name = Null

\* C17: for an id without a row, revoke, delete, updateMetadata,
\* updateScopes and rename return false and leave the key rows and the
\* rate-limit rows as they are, and getById returns null.
C17_UnknownId ==
  \A id \in KeyIds :
    rowsById(id) = {} =>
      /\ ~revoke(api_keys, id).result
      /\ revoke(api_keys, id).keys = api_keys
      /\ ~changed(id)
      /\ deleteWhereId(id) = api_keys
      /\ cascadeDelete(id) = rate_limit_records
      /\ \A m \in metadataValues :
           ~updateMetadata(id, m).result /\ updateMetadata(id, m).keys = api_keys
      /\ \A sc \in scopesValues :
           ~updateScopes(id, sc).result /\ updateScopes(id, sc).keys = api_keys
      /\ \A n \in nameValues :
           ~rename(id, n).result /\ rename(id, n).keys = api_keys
      /\ getById(id) = Null

\* The id of a deleted key has no row while another key and rate-limit rows
\* are stored
C17_Witness ==
  /\ \E id \in deleted : rowsById(id) = {} /\ getById(id) = Null
  /\ api_keys # {}
  /\ rate_limit_records # {}

\* C18: create with a length of zero or below, or with a charset that is
\* none of the five, throws before it draws random bytes and stores
\* nothing: no stored key has an empty random part.
C18_InvalidConfigRejected ==
  \A row \in api_keys : Len(issued[row.id]) > Len(row.prefix)

\* The alphabet each charset names
lowerLetters == { lower[i] : i \in 1..26 }
upperLetters == { upper[i] : i \in 1..26 }
digitChars == { digits[i] : i \in 1..10 }
alphabet ==
  [ alphanumeric       |-> lowerLetters \cup upperLetters \cup digitChars,
    alphanumeric_lower |-> lowerLetters \cup digitChars,
    alphanumeric_upper |-> upperLetters \cup digitChars,
    hex                |-> digitChars \cup {"a", "b", "c", "d", "e", "f"},
    base64url          |-> lowerLetters \cup upperLetters \cup digitChars \cup {"-", "_"} ]

\* Valid configurations: every charset, lengths from 1 to the default,
\* with, without and with the default prefix; and the empty configuration
shapeConfigs ==
  { [ prefix |-> p, length |-> n, charset |-> c ] :
      p \in { <<>>, <<"s","k","_">> }, n \in {1, 4, 5, 32}, c \in DOMAIN CHARSETS }
    \cup { [ length |-> n, charset |-> c ] : n \in {1, 32}, c \in DOMAIN CHARSETS }
    \cup { <<>> }

\* Random arrays of n bytes: all bytes equal, and bytes running through
\* the values from several starts
shapeArrays(n) ==
  byteArrays(n) \cup
    { [ i \in 1..n |-> (b + 37 * i) % 256 ] : b \in {0, 25, 61, 62, 63, 200} }

hasShape(key, prefix, length, charset) ==
  /\ Len(key) = Len(prefix) + length
  /\ SubSeq(key, 1, Len(prefix)) = prefix
  /\ \A i \in (Len(prefix) + 1)..Len(key) : key[i] \in alphabet[charset]

\* C19: for every valid charset, positive length and prefix and every draw
\* of random bytes, the raw key is the prefix followed by length characters
\* of the charset's alphabet; a configuration that names none of them gets
\* prefix rapids_, length 32 and charset base64url; every key stored with a
\* random part was built so.
C19_KeyShape ==
  /\ \A config \in shapeConfigs :
       LET merged == mergedConfig(config)
       IN \A array \in shapeArrays(merged.length) :
            hasShape(rawKeyOf(config, array), merged.prefix, merged.length,
                     merged.charset)
  /\ LET merged == mergedConfig(<<>>)
     IN /\ merged.prefix = <<"r","a","p","i","d","s","_">>
        /\ merged.length = 32
        /\ merged.charset = "base64url"
  /\ \A row \in api_keys :
       Len(issued[row.id]) > Len(row.prefix) =>
         hasShape(issued[row.id], row.prefix,
                  Len(issued[row.id]) - Len(row.prefix), "hex")

\* Keys with and without prefix and with random parts of different lengths
\* are stored
C19_Witness ==
  \E r1 \in api_keys, r2 \in api_keys :
    /\ r1.prefix = <<>> /\ Len(issued[r1.id]) = 5
    /\ r2.prefix = <<"s","k","_">> /\ Len(issued[r2.id]) = 3 + 4
    /\ hasShape(issued[r1.id], <<>>, 5, "hex")

(* SpecExpiry: the lifetime given to create.  Keys are created with no,    *)
(* a positive, a zero and a negative expiresIn; the clock advances by a    *)
(* quarter of a window.                                                    *)

expiresIns == { Some(15), Some(0), Some(-1) }
expiryConfigs ==
  { keyShape } \cup { keyShape @@ [ expiresIn |-> e ] : e \in expiresIns }

NextExpiry ==
  \/ \E config \in expiryConfigs :
       \E array \in freshArrays(config) : CreateAlone(config, array)
  \/ \E key \in lifeKeys, u \in BOOLEAN : ValidateAlone(key, u, FALSE)
  \/ \E keyId \in KeyIds : Delete(keyId)
  \/ Tick(WindowMs \div 4, MaxTicks)

SpecExpiry == Init /\ [][NextExpiry]_vars

\* C20: a key created now with a numeric expiresIn, positive, zero or
\* negative, gets expiresAt = createdAt + expiresIn * 1000, and with
\* expiresIn <= 0 its validation fails with reason expired; a key created
\* without expiresIn gets no expiresAt.
C20_ExpiresInNumeric ==
  /\ \A e \in expiresIns, key \in lifeKeys \ (drawn \cup {unknownKey}) :
       LET config == mergedConfig(keyShape @@ [ expiresIn |-> e ])
           row == newRow(nextId + 1, key, config, now)
           record == newRecord(nextId + 1, key, config, now)
           out == validate(validateCall(key, TRUE, TRUE),
                           api_keys \cup {row}, rate_limit_records, now)
       IN /\ row.expires_at = Some(row.created_at + e[1] * MsPerSecond)
          /\ record.expiresAt = Some(record.createdAt + e[1] * MsPerSecond)
          /\ e[1] <= 0 => ~out.valid /\ out.reason = Some("expired")
  /\ \A key \in lifeKeys \ (drawn \cup {unknownKey}) :
       newRow(nextId + 1, key, mergedConfig(keyShape), now).expires_at = Null

-----------------------------------------------------------------------------
\* C21: deleting a key removes its rate-limit counters with it, so every
\* counter row references a key row that is stored.
C21_NoOrphanCounters ==
  \A r \in rate_limit_records : rowsById(r.key_id) # {}

-----------------------------------------------------------------------------
\* C22: a rate check that finds the counter of the current window at or
\* above the limit rejects and leaves the store as it was: no counter is
\* incremented or created and no key row is touched.  With calls run one at
\* a time, every counter of a stored key is at least 1 and at most the
\* key's limit.
C22_RejectedNotCounted ==
  /\ \A c \in validateCalls :
       outcome(c).reason = Some("rate_limited") =>
         /\ outcome(c).records = rate_limit_records
         /\ outcome(c).keys = api_keys
         /\ outcome(c).valid = FALSE
  /\ \A r \in rate_limit_records : \A row \in rowsById(r.key_id) :
       /\ row.rate_limit # Null
       /\ 1 <= r.request_count
       /\ r.request_count <= row.rate_limit[1]

\* A key whose counter for the current window stands at its limit of 2, so
\* that the next validate of it is rejected
C22_Witness ==
  \E row \in api_keys :
    /\ row.rate_limit = Some(2)
    /\ \E r \in rate_limit_records :
         r.key_id = row.id /\ r.window_start = windowStartOf(now)
           /\ r.request_count = 2
    /\ outcome(validateCall(issued[row.id], TRUE, TRUE)).reason
         = Some("rate_limited")

-----------------------------------------------------------------------------
(* SpecWindow: the rate-limit windows.  Keys with a limit of 1 and of 2;   *)
(* every validate runs the rate check; the clock advances by half a        *)
(* window, so that two readings fall in each window.                       *)

singleConfig == keyShape @@ [ rateLimit |-> Some(1) ]

NextWindow ==
  \/ \E config \in {singleConfig, limitedConfig} :
       \E array \in freshArrays(config) : CreateAlone(config, array)
  \/ \E key \in lifeKeys : ValidateAlone(key, FALSE, TRUE)
  \/ \E keyId \in KeyIds : Revoke(keyId)
  \/ \E keyId \in KeyIds : Delete(keyId)
  \/ Tick(WindowMs \div 2, WindowTicks)

SpecWindow == Init /\ [][NextWindow]_vars

\* The 60-second buckets aligned to the epoch, and the one that holds t
buckets == { k * 60000 : k \in 0..8 }
bucketOf(t) == CHOOSE w \in buckets : w <= t /\ t < w + 60000

\* The count stored for key keyId in the bucket starting at w, 0 if none
countIn(records, keyId, w) ==
  IF \E r \in records : r.key_id = keyId /\ r.window_start = w
    THEN (CHOOSE r \in records : r.key_id = keyId /\ r.window_start = w).request_count
    ELSE 0

\* C23: rate-limit windows are fixed 60-second buckets aligned to the epoch.
\* Every counter belongs to a bucket no later than the one holding now; a
\* valid validate counts in the bucket holding now; an active key with no
\* count in the current bucket is admitted with a count of 1, whatever its
\* counts in earlier buckets, and those stay as they are; the counts of the
\* current and of the preceding bucket are the numbers of validations that
\* succeeded in them, each at most the limit, so at most 2 x limit together.
C23_FixedWindows ==
  /\ \A r \in rate_limit_records :
       r.window_start \in buckets /\ r.window_start <= bucketOf(now)
  /\ \A row \in api_keys :
       LET out == outcome(validateCall(issued[row.id], FALSE, TRUE))
           w == bucketOf(now)
           L == row.rate_limit[1]
       IN /\ row.rate_limit # Null
          /\ out.valid =>
               /\ countIn(out.records, row.id, w)
                    = countIn(rate_limit_records, row.id, w) + 1
               /\ countIn(out.records, row.id, w - 60000)
                    = countIn(rate_limit_records, row.id, w - 60000)
          /\ row.is_active = 1 /\ countIn(rate_limit_records, row.id, w) = 0 =>
               out.valid /\ countIn(out.records, row.id, w) = 1
          /\ countIn(rate_limit_records, row.id, w) = CopiesIn(row.id, admitted)
          /\ countIn(rate_limit_records, row.id, w - 60000)
               = CopiesIn(row.id, admittedBefore)
          /\ CopiesIn(row.id, admitted) <= L
          /\ CopiesIn(row.id, admittedBefore) <= L
          /\ CopiesIn(row.id, admitted) + CopiesIn(row.id, admittedBefore) <= 2 * L

\* A key of limit 2 that was validated twice in one window, where a third
\* validate would have been rate limited, and twice again in the next
C23_Witness ==
  \E row \in api_keys :
    /\ row.rate_limit = Some(2)
    /\ CopiesIn(row.id, admittedBefore) = 2
    /\ CopiesIn(row.id, admitted) = 2
    /\ countIn(rate_limit_records, row.id, bucketOf(now) - 60000) = 2
    /\ countIn(rate_limit_records, row.id, bucketOf(now)) = 2

-----------------------------------------------------------------------------
\* The fields of a row that no operation writes after the INSERT
fixedColumns ==
  {"id", "key_hash", "prefix", "suffix", "created_at", "expires_at", "rate_limit"}

\* Every stored row carries the values create wrote for its raw key and
\* configuration, and getById shows them
C24_AsCreated ==
  \A row \in api_keys :
    /\ row.id \in DOMAIN issued
    /\ row.key_hash = hashKey(issued[row.id])
    /\ row.prefix = opsConfig.prefix
    /\ row.suffix = slice4(issued[row.id])
    /\ row.created_at <= now
    /\ row.expires_at = Some(row.created_at + 60 * MsPerSecond)
    /\ row.rate_limit = opsConfig.rateLimit
    /\ getById(row.id) # Null
    /\ LET k == getById(row.id)[1]
       IN /\ k.id = row.id /\ k.keyHash = row.key_hash /\ k.prefix = row.prefix
          /\ k.suffix = row.suffix /\ k.createdAt = row.created_at
          /\ k.expiresAt = row.expires_at /\ k.rateLimit = row.rate_limit

\* No step changes a fixed column of a row that stays stored
C24_FixedStep ==
  \A r \in api_keys : \A q \in api_keys' :
    q.id = r.id => \A column \in fixedColumns : q[column] = r[column]

\* C24: id, keyHash, prefix, suffix, createdAt, expiresAt and rateLimit of a
\* stored record are the values written at creation: no validate, revoke,
\* updateMetadata, updateScopes or rename changes any of them.
C24_FixedFields == []C24_AsCreated /\ [][C24_FixedStep]_vars

\* A key that was validated, had its metadata, scopes and name replaced and
\* was revoked, some time after it was created
C24_Witness ==
  \E row \in api_keys :
    /\ row.last_used_at # Null
    /\ row.is_active = 0
    /\ row.metadata = stringifyMetadata(newMetadata)
    /\ row.scopes = stringifyScopes(newScopes)
    /\ row.name = Some(newName)
    /\ row.created_at < now

-----------------------------------------------------------------------------
\* A stored row is inactive exactly when revoke returned true for its id;
\* a key past its expiry that was not revoked is stored as active, and a
\* validate of it leaves the rows as they are
C25_InactiveIffRevoked ==
  \A row \in api_keys :
    /\ row.is_active \in {0, 1}
    /\ row.is_active = 0 <=> row.id \in revoked
    /\ inPast(row.expires_at) /\ row.id \notin revoked =>
         /\ row.is_active = 1
         /\ \A u \in BOOLEAN, r \in BOOLEAN :
              outcome(validateCall(issued[row.id], u, r)).keys = api_keys

\* A row is inserted active; is_active never goes from 0 to 1, and goes from
\* 1 to 0 only in a step in which revoke returns true for the row's id
C25_ActiveStep ==
  \A q \in api_keys' :
    /\ (\A r \in api_keys : r.id # q.id) => q.is_active = 1
    /\ \A r \in api_keys :
         r.id = q.id =>
           /\ q.is_active <= r.is_active
           /\ q.is_active < r.is_active =>
                q.id \in revoked' /\ q.id \notin revoked

\* C25: isActive starts true and changes only from true to false and only
\* through revoke; expiry is not stored: neither the clock nor a validate of
\* an expired key changes isActive.
C25_ActiveOneWay == []C25_InactiveIffRevoked /\ [][C25_ActiveStep]_vars

\* A key past its expiry that was validated while it was good and is still
\* stored as active, next to a key that was revoked
C25_Witness ==
  /\ \E row \in api_keys :
       inPast(row.expires_at) /\ row.is_active = 1 /\ row.last_used_at # Null
  /\ \E row \in api_keys : row.is_active = 0 /\ row.id \in revoked

-----------------------------------------------------------------------------
(* SpecCollide: creates whose random draws may repeat.  The generator may  *)
(* hand out the bytes it handed out before; creates and validates park at  *)
(* their await and resume in any order.                                    *)

NextCollide ==
  \/ \E array \in byteArrays(plainConfig.length) : Create(plainConfig, array)
  \/ \E c \in pendingOf("create") : CreateResume(c)
  \/ \E key \in lifeKeys : Validate(key, TRUE, FALSE)
  \/ \E c \in pendingOf("validate") : ValidateResume(c)
  \/ \E keyId \in KeyIds : Delete(keyId)

SpecCollide == Init /\ [][NextCollide]_vars

\* No two stored rows share an id or a key hash.  A create parked at its
\* await, were it to resume now, throws the store's error and returns
\* nothing exactly when its key's hash is stored, and then leaves the rows
\* as they are; otherwise it adds its own row and nothing else.
C26_Distinct ==
  /\ \A r1 \in api_keys, r2 \in api_keys :
       (r1.id = r2.id \/ r1.key_hash = r2.key_hash) => r1 = r2
  /\ \A c \in pendingOf("create") :
       LET out == create(c, nextId + 1, now)
       IN /\ out.threw # Null <=> \E r \in api_keys : r.key_hash = hashKey(c.key)
          /\ out.threw # Null => out.result = Null /\ out.keys = api_keys
          /\ out.threw = Null =>
               /\ out.result # Null
               /\ out.result[1].key = c.key
               /\ api_keys \subseteq out.keys
               /\ Cardinality(out.keys) = Cardinality(api_keys) + 1
               /\ \A r \in out.keys \ api_keys :
                    r.id = nextId + 1 /\ r.key_hash = hashKey(c.key)

\* A step in which a create resumes (it takes an id) changes the rows only
\* by adding its own, and changes nothing when its key's hash is stored
C26_CreateStep ==
  nextId' # nextId =>
    \E c \in pendingOf("create") :
      /\ pending' = pending (-) SetToBag({c})
      /\ rate_limit_records' = rate_limit_records
      /\ IF \E r \in api_keys : r.key_hash = hashKey(c.key)
           THEN api_keys' = api_keys /\ issued' = issued
           ELSE /\ api_keys' = api_keys \cup {newRow(nextId', c.key, c.config, now)}
                /\ issued' = issued @@ (nextId' :> c.key)

\* C26: no two stored records share an id or a keyHash; a create whose raw
\* key hashes to a stored keyHash fails with the store's error and leaves
\* the store unchanged; creates of distinct keys do not interfere, in
\* whatever order they resume.
C26_UniqueKeys == []C26_Distinct /\ [][C26_CreateStep]_vars

\* Two creates drew the same raw key and both returned from their await:
\* the second took an id and threw, and one row is stored
C26_Witness ==
  /\ nextId = 2
  /\ pending = EmptyBag
  /\ deleted = {}
  /\ Cardinality(api_keys) = 1
  /\ DOMAIN issued = {1}

-----------------------------------------------------------------------------
(* SpecLimits: the rate limits create accepts.  create is called with a    *)
(* rateLimit of 2, of zero and below zero; every validate runs the rate    *)
(* check; the clock advances by a whole window.                            *)

rateLimits == { Some(2), Some(0), Some(-1) }
limitsConfigs == { keyShape @@ [ rateLimit |-> n ] : n \in rateLimits }

NextLimits ==
  \/ \E config \in limitsConfigs :
       \E array \in freshArrays(config) : CreateAlone(config, array)
  \/ \E key \in lifeKeys : ValidateAlone(key, FALSE, TRUE)
  \/ \E keyId \in KeyIds : Delete(keyId)
  \/ Tick(WindowMs, MaxTicks)

SpecLimits == Init /\ [][NextLimits]_vars

\* C27: the rateLimit of every stored record is null or a positive integer:
\* create never stores a rateLimit of zero or below.
C27_PositiveRateLimit ==
  \A row \in api_keys : row.rate_limit = Null \/ row.rate_limit[1] >= 1

-----------------------------------------------------------------------------
\* At most one row of the table for each (key_id, window_start)
oneRowPerWindow(records) ==
  \A r1 \in records, r2 \in records :
    r1.key_id = r2.key_id /\ r1.window_start = r2.window_start => r1 = r2

\* C28: at most one counter row exists per (keyId, windowStart).  A rate
\* check at time now removes exactly the rows older than the window before
\* the current one: the rows of the current and of the preceding window, of
\* every key, are still there afterwards with their counts (the checked
\* key's current count being one higher when it is admitted), and no older
\* row is.
C28_LazyPurge ==
  /\ oneRowPerWindow(rate_limit_records)
  /\ \A c \in validateCalls :
       LET out == outcome(c)
           w == bucketOf(now)
           checked(r) == out.valid /\ r.key_id = out.key[1].id /\ r.window_start = w
       IN out.stmts # <<>> =>
            /\ oneRowPerWindow(out.records)
            /\ \A q \in out.records : q.window_start >= w - 60000
            /\ \A r \in rate_limit_records :
                 r.window_start >= w - 60000 =>
                   IF checked(r)
                     THEN [r EXCEPT !.request_count = @ + 1] \in out.records
                     ELSE r \in out.records
            /\ \A q \in out.records :
                 \/ q \in rate_limit_records
                 \/ /\ checked(q)
                    /\ q.request_count = countIn(rate_limit_records, q.key_id, w) + 1

\* A row two windows old and a row of the preceding window are stored when a
\* key is about to be rate checked: the check removes the first and keeps
\* the second
C28_Witness ==
  \E old \in rate_limit_records, kept \in rate_limit_records, row \in api_keys :
    /\ old.window_start = bucketOf(now) - 2 * 60000
    /\ kept.window_start = bucketOf(now) - 60000
    /\ LET out == outcome(validateCall(issued[row.id], FALSE, TRUE))
       IN /\ out.stmts # <<>>
          /\ old \notin out.records
          /\ kept \in out.records

-----------------------------------------------------------------------------
(* SpecRecord: what create stores and returns.  create is called with raw  *)
(* keys shorter than, as long as and longer than the stored suffix, with   *)
(* the defaults and with a name, metadata, scopes, an expiry and a rate    *)
(* limit, as the tests do; validate runs without the rate check.           *)

recordExtras ==
  { [ name |-> Null ],
    [ name |-> Some(newName), metadata |-> newMetadata, scopes |-> newScopes,
      expiresIn |-> Some(15), rateLimit |-> Some(100) ] }

recordConfigs ==
  { [ prefix |-> p, length |-> n, charset |-> "hex" ] @@ extra :
      p \in { <<>>, <<"s","k","_">> }, n \in {1, 4}, extra \in recordExtras }

recordKeys ==
  { rawKeyOf(config, a) : config \in recordConfigs, a \in byteArrays(4) }

NextRecord ==
  \/ \E config \in recordConfigs :
       \E array \in freshArrays(config) : CreateAlone(config, array)
  \/ \E key \in recordKeys : ValidateAlone(key, TRUE, FALSE)
  \/ \E keyId \in KeyIds : Delete(keyId)
  \/ Tick(WindowMs \div 4, MaxTicks)

SpecRecord == Init /\ [][NextRecord]_vars

\* The last 4 characters of s, all of s when it has fewer
lastFour(s) ==
  LET n == IF Len(s) < 4 THEN Len(s) ELSE 4
  IN [ i \in 1..n |-> s[Len(s) - n + i] ]

\* A step that stores a row under a new id is a create of one of the
\* configurations: it returns { key, record } without throwing, the stored
\* row is active and never used, getById of the new id returns the record
\* create returned, and the suffix is the last 4 characters of the raw key.
C29_CreateStep ==
  \A q \in api_keys' :
    (\A r \in api_keys : r.id # q.id) =>
      /\ q.id = nextId'
      /\ q.id \in DOMAIN issued'
      /\ q.is_active = 1
      /\ q.last_used_at = Null
      /\ q.suffix = lastFour(issued'[q.id])
      /\ \E config \in recordConfigs :
           \E array \in byteArrays(config.length) :
             LET c == createCall(rawKeyOf(config, array), mergedConfig(config))
                 out == create(c, nextId + 1, now)
             IN /\ out.threw = Null
                /\ out.result # Null
                /\ out.keys = api_keys'
                /\ out.result[1].key = issued'[q.id]
                /\ out.result[1].record.id = q.id
                /\ out.result[1].record.isActive = TRUE
                /\ out.result[1].record.lastUsedAt = Null
                /\ out.result[1].record.suffix = lastFour(out.result[1].key)
                /\ getById(q.id)' = Some(out.result[1].record)

\* C29: create persists a new record with isActive = true and lastUsedAt =
\* null and returns { rawKey, record }; right after create, getById of the
\* record's id returns a record equal to the returned one, with suffix the
\* last 4 characters of the raw key, all of it when it is shorter.
C29_CreateThenGet == [][C29_CreateStep]_vars

\* A stored key whose raw key has fewer than 4 characters, and a stored key
\* created with name, metadata, scopes, expiry and rate limit
C29_Witness ==
  /\ \E id \in DOMAIN issued :
       /\ Len(issued[id]) < 4
       /\ getById(id) # Null
       /\ getById(id)[1].suffix = issued[id]
       /\ getById(id)[1].lastUsedAt = Null
  /\ \E id \in DOMAIN issued :
       /\ getById(id) # Null
       /\ getById(id)[1].name = Some(newName)
       /\ getById(id)[1].metadata = newMetadata
       /\ getById(id)[1].rateLimit = Some(100)
       /\ getById(id)[1].isActive

-----------------------------------------------------------------------------
(* The transport layer: requireAuth and the protected route *)

\* The Authorization header: absent, or a scheme followed by a key.  The
\* pattern /^(?:Bearer|ApiKey)\s+(.+)$/i accepts the two schemes in any
\* letter case, followed by at least one character.
foldCase ==
  [ Bearer |-> "bearer", bearer |-> "bearer", ApiKey |-> "apikey",
    apikey |-> "apikey", Basic |-> "basic" ]

extractApiKey(header) ==
  IF header = Null THEN Null
  ELSE IF foldCase[header[1].scheme] \in {"bearer", "apikey"} /\ header[1].key # <<>>
    THEN Some(header[1].key)
  ELSE Null

\* messages[result.reason ?? 'not_found'] ?? 'Unauthorized'
messageOf(reason) ==
  LET messages == [ not_found    |-> "Invalid API key",
                    expired      |-> "API key has expired",
                    revoked      |-> "API key has been revoked",
                    rate_limited |-> "Rate limit exceeded" ]
      r == IF reason = Null THEN "not_found" ELSE reason[1]
  IN IF r \in DOMAIN messages THEN messages[r] ELSE "Unauthorized"

\* result.reason === 'rate_limited' ? 429 : 401
statusOfMutAlways401(reason) == 401

statusOf(reason) == IF reason = Some("rate_limited") THEN 429 ELSE 401

\* requireAuth: the error response, or null when the request may pass.
\* validate is called with its defaults (updateLastUsed, checkRateLimit).
requireAuth(header) ==
  LET key == extractApiKey(header)
      result == validate(validateCall(key[1], TRUE, TRUE),
                         api_keys, rate_limit_records, now)
  IN IF key = Null \/ key[1] = <<>>
       THEN Some([ status |-> 401,
                   error |-> "Missing API key in Authorization header" ])
     ELSE IF ~result.valid
       THEN Some([ status |-> statusOf(result.reason),
                   error |-> messageOf(result.reason) ])
     ELSE Null

\* GET /v1/protected: the response
protectedRoute(header) ==
  LET authError == requireAuth(header)
  IN IF authError # Null THEN authError[1]
     ELSE [ status |-> 200,
            message |-> "You have access to this protected resource!" ]

\* GET /v1/protected: what the request does to the store
Protected(header) ==
  /\ pending = EmptyBag
  /\ UNCHANGED pending
  /\ IF extractApiKey(header) = Null
       THEN UNCHANGED <<api_keys, rate_limit_records, now, nextId, issued,
                        admitted, admittedBefore, revoked, deleted, auxTables>>
       ELSE validateAfterAwait(validateCall(extractApiKey(header)[1], TRUE, TRUE))

(* SpecAuth: requests to the protected route.  Keys without and with       *)
(* expiry and a rate limit; requests without a header, with a scheme that  *)
(* is not accepted, without a key, with unknown and with issued keys.      *)

authHeaders ==
  {Null} \cup { Some([ scheme |-> s, key |-> k ]) :
                  s \in {"Bearer", "apikey", "Basic"}, k \in lifeKeys \cup {<<>>} }

NextAuth ==
  \/ \E config \in {plainConfig, expiringConfig} :
       \E array \in freshArrays(config) : CreateAlone(config, array)
  \/ \E header \in authHeaders : Protected(header)
  \/ \E keyId \in KeyIds : Revoke(keyId)
  \/ \E keyId \in KeyIds : Delete(keyId)
  \/ Tick(WindowMs \div 4, MaxTicks)

SpecAuth == Init /\ [][NextAuth]_vars

\* The request carries a key: a header with one of the two schemes and a key
\* that is not empty
carriesKey(header) ==
  /\ header # Null
  /\ header[1].scheme \in {"Bearer", "apikey"}
  /\ header[1].key # <<>>

\* C30: requireAuth maps the validation result to a status: no key in the
\* Authorization header, or a reason of not_found, expired or revoked, gives
\* 401; rate_limited gives 429; the protected handler answers (200) only
\* when validate returned valid: true.
C30_AuthStatus ==
  \A header \in authHeaders :
    LET response == protectedRoute(header)
        out == outcome(validateCall(header[1].key, TRUE, TRUE))
    IN IF ~carriesKey(header)
         THEN response.status = 401
         ELSE /\ out.reason \in { Some("not_found"), Some("expired"), Some("revoked") }
                   => response.status = 401
              /\ out.reason = Some("rate_limited") => response.status = 429
              /\ out.valid <=> response.status = 200
              /\ response.status \in {200, 401, 429}

\* Requests in one state that are answered 429 (a key over its limit), 401
\* for an expired key, 401 for an unknown key and 401 for a missing header
C30_Witness ==
  /\ \E header \in authHeaders :
       carriesKey(header) /\ protectedRoute(header).status = 429
  /\ \E header \in authHeaders :
       /\ carriesKey(header)
       /\ outcome(validateCall(header[1].key, TRUE, TRUE)).reason = Some("expired")
       /\ protectedRoute(header).status = 401
  /\ protectedRoute(Some([ scheme |-> "Bearer", key |-> unknownKey ])).status = 401
  /\ protectedRoute(Null).status = 401

-----------------------------------------------------------------------------
(* The transport layer: GET /v1/keys *)

\* parseInt(s, 10): an optional sign and the leading decimal digits of s;
\* NaN when there is no digit.  Math.min with a NaN is NaN.
NaN == <<>>

isDigit(c) == \E i \in 1..10 : digits[i] = c
digitValue(c) == (CHOOSE i \in 1..10 : digits[i] = c) - 1

RECURSIVE leadingDigits(_)
leadingDigits(s) ==
  IF s = <<>> \/ ~isDigit(Head(s)) THEN <<>>
  ELSE <<Head(s)>> \o leadingDigits(Tail(s))

RECURSIVE decimal(_)
decimal(ds) ==
  IF ds = <<>> THEN 0
  ELSE 10 * decimal(SubSeq(ds, 1, Len(ds) - 1)) + digitValue(ds[Len(ds)])

parseInt(s) ==
  LET signed == s # <<>> /\ Head(s) \in {"-", "+"}
      ds == leadingDigits(IF signed THEN Tail(s) ELSE s)
  IN IF ds = <<>> THEN NaN
     ELSE IF signed /\ Head(s) = "-" THEN Some(0 - decimal(ds))
     ELSE Some(decimal(ds))

mathMin(a, b) ==
  IF a = NaN \/ b = NaN THEN NaN
  ELSE IF a[1] < b[1] THEN a ELSE b

\* url.searchParams.get(name) ?? fallback
paramOr(param, fallback) == IF param = Null THEN fallback ELSE param[1]

\* The options GET /v1/keys passes to list; query holds the value of each
\* query parameter, null when the parameter is absent
keysRouteOptions(query) ==
  [ isActive       |-> IF query.active # Null
                         THEN Some(query.active[1] = <<"t","r","u","e">>)
                         ELSE Null,
    prefix         |-> query.prefix,
    includeExpired |-> query.includeExpired = Some(<<"t","r","u","e">>),
    offset         |-> parseInt(paramOr(query.offset, <<"0">>)),
    limit          |-> mathMin(parseInt(paramOr(query.limit, <<"5","0">>)),
                               Some(100)) ]

\* The response of GET /v1/keys when offset and limit are numbers
keysRoute(query) ==
  LET options == keysRouteOptions(query)
      keys == list([ options EXCEPT !.offset = options.offset[1],
                                    !.limit = options.limit[1] ], now)
  IN [ status |-> 200, keys |-> keys, count |-> Len(keys) ]

\* The requests: the limit parameter absent, positive below and above the
\* cap, zero, negative and not a number
limitParams ==
  { Null, Some(<<"1">>), Some(<<"5","0","0">>), Some(<<"0">>),
    Some(<<"-","1">>), Some(<<"a","b","c">>) }

keysQueries ==
  [ active : {Null}, prefix : {Null},
    includeExpired : {Null, Some(<<"t","r","u","e">>)},
    offset : {Null}, limit : limitParams ]

\* C31: for every value of the limit query parameter, GET /v1/keys passes
\* list a limit between 0 and 100 and returns at most 100 keys.
C31_LimitCapped ==
  \A query \in keysQueries :
    /\ keysRouteOptions(query).limit # NaN
    /\ keysRouteOptions(query).limit[1] \in 0..100
    /\ keysRoute(query).count <= 100

-----------------------------------------------------------------------------
(* The auxiliary record types: rues, shared secrets, apps *)

\* new Date(ms).toISOString()
toISOString(t) == [ iso |-> t ]

\* The record a row of rues / shared_secrets / apps is returned as
rowToRues(row) ==
  [ app_id |-> row.app_id, public_key |-> row.public_key,
    created_at |-> toISOString(row.created_at) ]

rowToSharedSecret(row) ==
  [ private_key |-> row.private_key, public_key |-> row.public_key,
    created_at |-> toISOString(row.created_at) ]

rowToApp(row) ==
  [ app_id |-> row.app_id, name |-> row.name, public_key |-> row.public_key,
    private_key |-> row.private_key, created_at |-> toISOString(row.created_at) ]

\* createRues: INSERT ... ON CONFLICT (app_id) DO UPDATE SET public_key = ?,
\* created_at = ?.  The table afterwards, what is thrown, what is returned.
createRues(appId, publicKey, t) ==
  LET row == [ app_id |-> appId, public_key |-> publicKey, created_at |-> t ]
  IN [ rows   |-> { r \in rues : r.app_id # appId } \cup {row},
       threw  |-> Null,
       result |-> Some(rowToRues(row)) ]

getRues(appId) ==
  IF \E r \in rues : r.app_id = appId
    THEN Some(rowToRues(CHOOSE r \in rues : r.app_id = appId))
    ELSE Null

deleteRues(appId) ==
  [ rows   |-> { r \in rues : r.app_id # appId },
    result |-> Cardinality({ r \in rues : r.app_id = appId }) > 0 ]

\* createSharedSecret: INSERT ... ON CONFLICT (private_key) DO UPDATE SET
\* public_key = ?, created_at = ?
createSharedSecret(privateKey, publicKey, t) ==
  LET row == [ private_key |-> privateKey, public_key |-> publicKey,
               created_at |-> t ]
  IN [ rows   |-> { r \in shared_secrets : r.private_key # privateKey } \cup {row},
       threw  |-> Null,
       result |-> Some(rowToSharedSecret(row)) ]

getSharedSecret(privateKey) ==
  IF \E r \in shared_secrets : r.private_key = privateKey
    THEN Some(rowToSharedSecret(
                CHOOSE r \in shared_secrets : r.private_key = privateKey))
    ELSE Null

deleteSharedSecret(privateKey) ==
  [ rows   |-> { r \in shared_secrets : r.private_key # privateKey },
    result |-> Cardinality({ r \in shared_secrets : r.private_key = privateKey }) > 0 ]

\* createApp: INSERT INTO apps ... with no ON CONFLICT clause; app_id is the
\* input's, or uuid (crypto.randomUUID()) when the input has none.  The
\* statement throws on the PRIMARY KEY, and createApp with it.
createApp(input, uuid, t) ==
  LET appId == IF input.app_id # Null THEN input.app_id[1] ELSE uuid
      row == [ app_id |-> appId, name |-> input.name,
               public_key |-> input.public_key,
               private_key |-> input.private_key, created_at |-> t ]
  IN IF \E r \in apps : r.app_id = appId
       THEN [ rows |-> apps, threw |-> Some("SQLiteError"), result |-> Null ]
       ELSE [ rows |-> apps \cup {row}, threw |-> Null,
              result |-> Some(rowToApp(row)) ]

getApp(appId) ==
  IF \E r \in apps : r.app_id = appId
    THEN Some(rowToApp(CHOOSE r \in apps : r.app_id = appId))
    ELSE Null

deleteApp(appId) ==
  [ rows   |-> { r \in apps : r.app_id # appId },
    result |-> Cardinality({ r \in apps : r.app_id = appId }) > 0 ]

\* What the ApiKeyService variables and the other tables keep
keyState ==
  <<api_keys, rate_limit_records, now, pending, issued,
    admitted, admittedBefore, revoked, deleted>>

CreateRues(appId, publicKey) ==
  /\ rues' = createRues(appId, publicKey, now).rows
  /\ UNCHANGED <<keyState, nextId, apps, shared_secrets>>

DeleteRues(appId) ==
  /\ rues' = deleteRues(appId).rows
  /\ UNCHANGED <<keyState, nextId, apps, shared_secrets>>

CreateSharedSecret(privateKey, publicKey) ==
  /\ shared_secrets' = createSharedSecret(privateKey, publicKey, now).rows
  /\ UNCHANGED <<keyState, nextId, apps, rues>>

DeleteSharedSecret(privateKey) ==
  /\ shared_secrets' = deleteSharedSecret(privateKey).rows
  /\ UNCHANGED <<keyState, nextId, apps, rues>>

\* The id crypto.randomUUID() hands out next
uuidOf(n) == <<"uuid", n>>

CreateApp(input) ==
  /\ input.app_id = Null => nextId < MaxApps
  /\ nextId' = IF input.app_id = Null THEN nextId + 1 ELSE nextId
  /\ apps' = createApp(input, uuidOf(nextId + 1), now).rows
  /\ UNCHANGED <<keyState, shared_secrets, rues>>

DeleteApp(appId) ==
  /\ apps' = deleteApp(appId).rows
  /\ UNCHANGED <<keyState, nextId, shared_secrets, rues>>

(* SpecAux: the auxiliary record types.  Records are created again under   *)
(* the same primary key with other values and at a later time, and         *)
(* deleted; apps are created with and without an app_id.                   *)

ruesIds == { <<"app", 1>>, <<"app", 2>> }
appIds == { <<"app", 1>> }
privateKeys == { "sk1" }
publicKeys == { "pk1", "pk2" }

appInputs ==
  { [ app_id |-> a, name |-> nk[1], public_key |-> nk[2], private_key |-> "sk1" ] :
      a \in {Null} \cup { Some(i) : i \in appIds },
      nk \in { <<"one", "pk1">>, <<"two", "pk2">> } }

NextAux ==
  \/ \E appId \in ruesIds, publicKey \in publicKeys : CreateRues(appId, publicKey)
  \/ \E appId \in ruesIds : DeleteRues(appId)
  \/ \E privateKey \in privateKeys, publicKey \in publicKeys :
       CreateSharedSecret(privateKey, publicKey)
  \/ \E privateKey \in privateKeys : DeleteSharedSecret(privateKey)
  \/ \E input \in appInputs : CreateApp(input)
  \/ \E appId \in appIds \cup { uuidOf(n) : n \in 1..MaxApps } : DeleteApp(appId)
  \/ Tick(WindowMs \div 4, AuxTicks)

SpecAux == Init /\ [][NextAux]_vars

\* rues and shared secrets: exactly one row per primary key; create of any
\* key succeeds, leaves one row for the key with the new values, which is
\* what get then returns; delete returns true exactly when a row existed
\* and leaves none.
C32_UpsertRues ==
  /\ \A r1 \in rues, r2 \in rues : r1.app_id = r2.app_id => r1 = r2
  /\ \A r \in rues : getRues(r.app_id) = Some(rowToRues(r))
  /\ \A appId \in ruesIds :
       /\ \A publicKey \in publicKeys :
            LET out == createRues(appId, publicKey, now)
                row == [ app_id |-> appId, public_key |-> publicKey,
                         created_at |-> now ]
            IN /\ out.threw = Null
               /\ { r \in out.rows : r.app_id = appId } = {row}
               /\ { r \in out.rows : r.app_id # appId }
                    = { r \in rues : r.app_id # appId }
               /\ out.result = Some(rowToRues(row))
       /\ deleteRues(appId).result <=> getRues(appId) # Null
       /\ \A r \in deleteRues(appId).rows : r.app_id # appId

C32_UpsertSharedSecrets ==
  /\ \A r1 \in shared_secrets, r2 \in shared_secrets :
       r1.private_key = r2.private_key => r1 = r2
  /\ \A r \in shared_secrets :
       getSharedSecret(r.private_key) = Some(rowToSharedSecret(r))
  /\ \A privateKey \in privateKeys :
       /\ \A publicKey \in publicKeys :
            LET out == createSharedSecret(privateKey, publicKey, now)
                row == [ private_key |-> privateKey, public_key |-> publicKey,
                         created_at |-> now ]
            IN /\ out.threw = Null
               /\ { r \in out.rows : r.private_key = privateKey } = {row}
               /\ out.result = Some(rowToSharedSecret(row))
       /\ deleteSharedSecret(privateKey).result <=> getSharedSecret(privateKey) # Null
       /\ \A r \in deleteSharedSecret(privateKey).rows : r.private_key # privateKey

\* apps: the same, for inputs that name their app_id
C32_UpsertApps ==
  /\ \A r1 \in apps, r2 \in apps : r1.app_id = r2.app_id => r1 = r2
  /\ \A r \in apps : getApp(r.app_id) = Some(rowToApp(r))
  /\ \A appId \in appIds :
       /\ deleteApp(appId).result <=> getApp(appId) # Null
       /\ \A r \in deleteApp(appId).rows : r.app_id # appId
  /\ \A input \in appInputs :
       input.app_id # Null =>
         LET out == createApp(input, uuidOf(nextId + 1), now)
         IN /\ out.threw = Null
            /\ { rowToApp(r) : r \in { q \in out.rows : q.app_id = input.app_id[1] } }
                 = { out.result[1] }

\* C32: for apps, shared secrets and rues, create is an upsert: creating a
\* record whose primary key exists succeeds and replaces the stored values,
\* exactly one row exists per primary key and get returns the values of the
\* latest create; delete returns true exactly when a row existed and get
\* returns null afterwards.
C32_CreateIsUpsert ==
  C32_UpsertRues /\ C32_UpsertSharedSecrets /\ C32_UpsertApps

-----------------------------------------------------------------------------
\* The stored active keys that validate rejects as expired at this instant
rejectedAsExpired ==
  { row \in api_keys :
      /\ row.is_active = 1
      /\ outcome(validateCall(issued[row.id], FALSE, FALSE)).reason = Some("expired") }

\* The ids list returns with includeExpired = false and no other filter
listedIds ==
  LET page == list(defaultListOptions, now)
  IN { page[i].id : i \in 1..Len(page) }

\* C33: validate, list and getStats agree on when a key is expired, at
\* every instant, the instant now = expiresAt included: an active key is
\* rejected by validate as expired exactly when list without expired keys
\* leaves it out, and getStats counts as expired the active keys validate
\* rejects as expired (next to the revoked keys whose expiry has come) and
\* as active the other active keys.
C33_ExpiryAgreement ==
  /\ \A row \in api_keys :
       row.is_active = 1 => (row \in rejectedAsExpired <=> row.id \notin listedIds)
  /\ getStats(now).expired
       = Cardinality(rejectedAsExpired)
           + Cardinality({ row \in api_keys :
                             row.is_active = 0 /\ atOrBeforeNow(row.expires_at) })
  /\ getStats(now).active
       = Cardinality({ row \in api_keys : row.is_active = 1 } \ rejectedAsExpired)

-----------------------------------------------------------------------------
\* The stored records that are both revoked and past their expiry
revokedAndExpired ==
  { k \in storedRecords : ~k.isActive /\ atOrBeforeNow(k.expiresAt) }

\* C34: getStats counts every record in at least one of active, expired and
\* revoked, and none in both active and revoked or in both active and
\* expired: active + revoked <= total <= active + expired + revoked, the
\* sum exceeding the total by the number of records that are both revoked
\* and expired, so that it equals the total exactly when there is none.
C34_StatsBuckets ==
  LET stats == getStats(now)
      sum == stats.active + stats.expired + stats.revoked
  IN /\ stats.active + stats.revoked <= stats.total
     /\ stats.total <= sum
     /\ sum = stats.total + Cardinality(revokedAndExpired)
     /\ stats.total = sum <=> revokedAndExpired = {}
     /\ stats.expired >= Cardinality(revokedAndExpired)
     /\ stats.revoked >= Cardinality(revokedAndExpired)

\* A record revoked and expired next to a record expired and not revoked:
\* total 2, active 0, expired 2, revoked 1
C34_Witness ==
  LET stats == getStats(now)
  IN /\ revokedAndExpired # {}
     /\ \E k \in storedRecords : k.isActive /\ atOrBeforeNow(k.expiresAt)
     /\ stats.total = 2 /\ stats.active = 0
     /\ stats.expired = 2 /\ stats.revoked = 1

-----------------------------------------------------------------------------
(* SpecQuota: what consumes quota.  Keys with a rate limit, without and    *)
(* with an expiry one window after creation; validate with and without     *)
(* the rate check; the clock advances by a whole window, so that counters  *)
(* of past windows are stored when keys are expired, revoked or deleted.   *)

quotaConfig == keyShape @@ [ expiresIn |-> Some(60), rateLimit |-> Some(2) ]

NextQuota ==
  \/ \E config \in {limitedConfig, quotaConfig} :
       \E array \in freshArrays(config) : CreateAlone(config, array)
  \/ \E key \in lifeKeys, r \in BOOLEAN : ValidateAlone(key, FALSE, r)
  \/ \E keyId \in KeyIds : Revoke(keyId)
  \/ \E keyId \in KeyIds : Delete(keyId)
  \/ Tick(WindowMs, MaxTicks)

SpecQuota == Init /\ [][NextQuota]_vars

\* C35: only a validate that reaches the rate check consumes quota.  A
\* validate that returns not_found, revoked or expired, or that is called
\* with checkRateLimit = false, runs no statement on the counters and leaves
\* every counter row as it is; a validate with the rate check that returns
\* valid: true for a key with a rate limit adds exactly 1 to the key's
\* counter of the current window and changes no other counter of the
\* current or preceding window.
C35_OnlyRateCheckCounts ==
  \A c \in validateCalls :
    LET out == outcome(c)
        w == bucketOf(now)
    IN /\ ( \/ out.reason \in { Some("not_found"), Some("revoked"), Some("expired") }
            \/ ~c.checkRateLimit ) =>
            /\ out.records = rate_limit_records
            /\ out.stmts = <<>>
       /\ (out.valid /\ c.checkRateLimit /\ out.key[1].rateLimit # Null) =>
            /\ countIn(out.records, out.key[1].id, w)
                 = countIn(rate_limit_records, out.key[1].id, w) + 1
            /\ \A r \in out.records :
                 (r.key_id # out.key[1].id \/ r.window_start # w) =>
                   r \in rate_limit_records
            /\ \A r \in rate_limit_records :
                 (r.window_start >= w - 60000
                    /\ (r.key_id # out.key[1].id \/ r.window_start # w)) =>
                   r \in out.records

\* A counter two windows old is stored while a key with a rate limit is
\* expired and another is revoked: validating them leaves the old counter
C35_Witness ==
  /\ \E r \in rate_limit_records : r.window_start <= bucketOf(now) - 2 * 60000
  /\ \E id \in DOMAIN issued :
       outcome(validateCall(issued[id], FALSE, TRUE)).reason = Some("expired")
  /\ \E id \in DOMAIN issued :
       outcome(validateCall(issued[id], FALSE, TRUE)).reason = Some("revoked")

-----------------------------------------------------------------------------
(* SpecRace: validate against revoke and delete.  validate is called with  *)
(* its defaults (updateLastUsed and checkRateLimit true) and parks at      *)
(* `await hashKey(key)`; revoke and delete, which have no await, and the   *)
(* clock run while it is parked.  Everything validate does after the       *)
(* await, from the SELECT to the UPDATE of last_used_at, is synchronous    *)
(* code on one connection and runs as one step.                            *)

NextRace ==
  \/ \E array \in freshArrays(limitedConfig) : CreateAlone(limitedConfig, array)
  \/ \E key \in lifeKeys : Validate(key, TRUE, TRUE)
  \/ \E c \in pendingOf("validate") : ValidateResume(c)
  \/ \E keyId \in KeyIds : Revoke(keyId)
  \/ \E keyId \in KeyIds : Delete(keyId)
  \/ Tick(WindowMs \div 4, MaxTicks)

SpecRace == Init /\ [][NextRace]_vars

\* The ids whose row is stored and active
liveIds == { r.id : r \in { k \in api_keys : k.is_active = 1 } }

\* The ids of the keys that validate calls in flight present
idsInFlight ==
  { id \in DOMAIN issued : \E c \in pendingOf("validate") : c.key = issued[id] }

\* C36: under every interleaving of validate with revoke and delete, a
\* step that creates or increments a counter row does so for a key whose
\* row is stored and active when the step starts, a step that changes a
\* row's last_used_at does so for an active row and sets it to the clock,
\* the last_used_at of a revoked row never changes again, and no stored
\* last_used_at is later than the clock; so no counter is created for a
\* deleted key and no revoked key is used after its revocation.
C36_WriteStep ==
  /\ \A r \in rate_limit_records' :
       r \notin rate_limit_records => r.key_id \in liveIds
  /\ \A k \in api_keys : \A k2 \in api_keys' :
       (k2.id = k.id /\ k2.last_used_at # k.last_used_at) =>
         /\ k.is_active = 1
         /\ k2.last_used_at = Some(now)
  /\ \A r \in rate_limit_records' :
       r.key_id \in deleted => r \in rate_limit_records

C36_NoWriteAfterRevoke ==
  /\ [](\A k \in api_keys :
          k.last_used_at # Null => k.last_used_at[1] <= now)
  /\ [][C36_WriteStep]_vars

\* Two validates are in flight, one for a key revoked and one for a key
\* deleted, each of which was used and counted before
C36_Witness ==
  /\ \E id \in idsInFlight \cap revoked :
       /\ \E k \in api_keys : k.id = id /\ k.is_active = 0 /\ k.last_used_at # Null
       /\ \E r \in rate_limit_records : r.key_id = id
  /\ \E id \in idsInFlight \cap deleted :
       \E r \in rate_limit_records : r.key_id = id

-----------------------------------------------------------------------------
(* The transport layer: POST /v1/keys/validate *)

\* !body?.key: no body, a body without key, or an empty key
missingKey(body) == body = Null \/ body[1].key = Null \/ body[1].key = Some(<<>>)

\* ApiKeyService.validate(body.key, { updateLastUsed: false })
validateRouteCallMutDefaults(body) == validateCall(body[1].key[1], TRUE, TRUE)

validateRouteCall(body) == validateCall(body[1].key[1], FALSE, TRUE)

\* The key of the response: seven fields of result.key, or null
routeKey(key) ==
  IF key = Null THEN Null
  ELSE Some([ id        |-> key[1].id,
              prefix    |-> key[1].prefix,
              suffix    |-> key[1].suffix,
              name      |-> key[1].name,
              scopes    |-> key[1].scopes,
              expiresAt |-> IF key[1].expiresAt = Null THEN Null
                            ELSE Some(toISOString(key[1].expiresAt[1])),
              isActive  |-> key[1].isActive ])

\* POST /v1/keys/validate: the response
validateRoute(body) ==
  IF missingKey(body)
    THEN [ status |-> 400, error |-> "Missing \"key\" in request body" ]
  ELSE LET result == validate(validateRouteCall(body),
                              api_keys, rate_limit_records, now)
       IN [ status |-> 200,
            valid  |-> result.valid,
            reason |-> result.reason,
            key    |-> routeKey(result.key) ]

\* POST /v1/keys/validate: what the request does to the store
ValidateRoute(body) ==
  /\ pending = EmptyBag
  /\ UNCHANGED pending
  /\ IF missingKey(body)
       THEN UNCHANGED <<api_keys, rate_limit_records, now, nextId, issued,
                        admitted, admittedBefore, revoked, deleted, auxTables>>
       ELSE validateAfterAwait(validateRouteCall(body))

(* SpecRoute: requests to the validation route.  Keys with a rate limit of *)
(* 2 and, expiring, of 1; requests without a body, without a key, with an  *)
(* empty, an unknown and an issued key.  No other operation validates, so  *)
(* the requests admitted in the window are requests to this route.         *)

routeBodies ==
  {Null, Some([ key |-> Null ])}
    \cup { Some([ key |-> Some(k) ]) : k \in lifeKeys \cup {<<>>} }

NextRoute ==
  \/ \E config \in {limitedConfig, expiringConfig} :
       \E array \in freshArrays(config) : CreateAlone(config, array)
  \/ \E body \in routeBodies : ValidateRoute(body)
  \/ \E keyId \in KeyIds : Revoke(keyId)
  \/ \E keyId \in KeyIds : Delete(keyId)
  \/ Tick(WindowMs \div 4, MaxTicks)

SpecRoute == Init /\ [][NextRoute]_vars

\* The key stored under id passes validate's checks of the row (it is
\* stored, active and not expired), and its rate limit.  With the route the
\* only caller of validate, `admitted` holds the requests to the route that
\* were admitted in the window: of the requests made for a usable key the
\* first rateLimit are admitted.
usable(id) ==
  outcome(validateCall(issued[id], FALSE, FALSE)).valid
limitOfId(id) == getById(id)[1].rateLimit[1]

\* C37: a request to POST /v1/keys/validate leaves every key row as it is
\* (lastUsedAt stays null when no other operation validates), and an
\* admitted request for a key with a rate limit adds 1 to the key's counter
\* of the window; once rateLimit requests for a usable key were admitted in
\* the window, the route answers rate_limited and the auth middleware
\* answers 429 "Rate limit exceeded" for that key.
C37_RouteCountsNotTouches ==
  /\ \A k \in api_keys : k.last_used_at = Null
  /\ \A body \in routeBodies :
       ~missingKey(body) =>
         LET out == outcome(validateRouteCall(body))
         IN /\ out.keys = api_keys
            /\ (out.valid /\ out.key[1].rateLimit # Null) =>
                 countIn(out.records, out.key[1].id, bucketOf(now))
                   = countIn(rate_limit_records, out.key[1].id, bucketOf(now)) + 1
  /\ \A id \in DOMAIN issued :
       (usable(id) /\ CopiesIn(id, admitted) >= limitOfId(id)) =>
         /\ validateRoute(Some([ key |-> Some(issued[id]) ])).valid = FALSE
         /\ validateRoute(Some([ key |-> Some(issued[id]) ])).reason
              = Some("rate_limited")
         /\ protectedRoute(Some([ scheme |-> "Bearer", key |-> issued[id] ]))
              = [ status |-> 429, error |-> "Rate limit exceeded" ]

\* Two requests to the route were admitted for a key with rateLimit 2: the
\* third is answered rate_limited, the middleware answers 429, and the key
\* was never marked as used
C37_Witness ==
  \E id \in DOMAIN issued :
    /\ usable(id)
    /\ limitOfId(id) = 2
    /\ CopiesIn(id, admitted) = 2
    /\ getById(id)[1].lastUsedAt = Null
    /\ validateRoute(Some([ key |-> Some(issued[id]) ])).reason = Some("rate_limited")
    /\ protectedRoute(Some([ scheme |-> "Bearer", key |-> issued[id] ])).status = 429

====
